---- MODULE Spec2Model ----
(***************************************************************************)
(* Registration engine of the event-management API.                       *)
(*                                                                         *)
(* The store is PostgreSQL at READ COMMITTED.  Every request of the       *)
(* controller is a sequence of autocommit statements; each statement is a *)
(* transaction whose CURRENT_TIMESTAMP is the instant it began.  A        *)
(* statement is split into steps exactly where it can block (advisory     *)
(* lock, row lock) or takes a new snapshot that other transactions can    *)
(* have changed.  Rows written by a transaction become visible to the     *)
(* others at its commit, which is the last step of the statement.         *)
(***************************************************************************)
EXTENDS Integers, FiniteSets, Sequences, TLC, Bags

\* ---------------------------------------------------------------- bounds
MaxCap == 2
DateTime == 2
MaxId == 3
NProcs == 2
MaxEvents == 2

MaxNow == DateTime
UserSeq == <<"u1", "u2", "u3", "u4">>
Users == {"u1", "u2"}
Events == {"e1", "e2"}
Procs == 1..NProcs
Workers == {1, 2}
Creators == {1}

\* ------------------------------------------------------ program constants
CapacityLimitTable == 1000
CapacityLimitTrigger == 10000
SoonWindow == 86400
\* instants are counted in seconds
MinLead == 3600
MaxLead == 31536000
ConflictWindow == 3600
\* migration files of the schema directory, named 1..MaxFiles in filename
\* order; each has one of two contents, with checksums 1 and 2
MaxFiles == 3
DB_POOL_MAX == 20
maxConnectionAttempts == 5
reconnectDelay == 1000

InsertStatuses == {"confirmed", "cancelled", "waitlist", "pending"}

VARIABLES
    now,            \* Clock: the current instant
    events,         \* committed rows of table events, by id
    registrations,  \* committed rows of table registrations
    nextId,         \* registrations_id_seq
    pc,             \* position of each request
    req,            \* the request each worker is handling
    ts,             \* CURRENT_TIMESTAMP of the worker's open statement
    regid,          \* registration.id read by the controller (0: none)
    cnt,            \* current_count held by the worker's count trigger
    outcome,        \* outcome of the worker's last finished request
    cycle,          \* observer of one Register/Cancel/Register sequence
    view,           \* what a GET request in progress has read so far
    created,        \* committed rows of table events written by createEvent
    nextEventId,    \* events_id_seq
    create,         \* each worker's createEvent request and its transaction
    calls,          \* each request's Store call: times issued, fault met
    eventRow,       \* the event row each Register read in its step 2
    batch,          \* the last batch_event_registration call and its result
    pool,           \* DatabasePool: connection state and pending timers
    retry,          \* observer of the failures since the last connection
    manager,        \* DatabaseManager and the controller's pool reference
    init,           \* position of each request in initialize()
    migrations      \* migration files, schema_migrations and the run

\* the state of createEvent and the record of Store calls, which Register,
\* Cancel and GET leave alone
infra == <<pool, retry, manager, init, migrations>>
aside == <<eventRow, batch, infra>>
side == <<created, nextEventId, create, calls, aside>>

vars == <<now, events, registrations, nextId, pc, req, ts, regid, cnt,
          outcome, cycle, view, side>>

engine == <<now, events, registrations, nextId, pc, req, ts, regid, cnt,
            outcome, cycle, view>>

NoReq == [op |-> "none", actor |-> "u1", user |-> "u1", event |-> "e1",
          status |-> "confirmed"]
NoCycle == [stage |-> 0, user |-> "u1", event |-> "e1", c0 |-> 0]
NoCreate == [pc |-> "idle", created_by |-> "u1", date_time |-> 0,
             capacity |-> 0,
             id |-> 0, client |-> FALSE, inserted |-> FALSE,
             last |-> "none",
             commits |-> 0, rollbacks |-> 0, releases |-> 0,
             ended |-> "none", outcome |-> "none"]
NoCall == [attempts |-> 0, fault |-> "none"]
NoRow == [capacity |-> 0, current_registrations |-> 0]
NoPool == [isConnected |-> FALSE, connectionAttempts |-> 0,
           timers |-> EmptyBag, emitted |-> "none"]
NoRetry == [failures |-> 0, scheduled |-> 0, delay |-> 0]
NoManager == [isInitialized |-> FALSE, pool |-> 0, controllerPool |-> 0,
              created |-> 0, healthChecks |-> 0, migrationRuns |-> 0,
              failed |-> 0]
NoRun == [pc |-> "idle", pending |-> <<>>, error |-> "none"]
NoBatch == [called |-> FALSE, p_user_ids |-> <<>>, details |-> <<>>,
            total_processed |-> 0, successful_registrations |-> 0,
            failed_registrations |-> 0]
NoView == [route |-> "none", stage |-> 0, event |-> "e1",
           current_registrations |-> 0, confirmed |-> 0, listed |-> {},
           snaps |-> {}, viewer |-> "anonymous", date_time |-> 0,
           capacity |-> 0, is_registered |-> FALSE, disclosed |-> "none",
           count |-> 0, times |-> {}, is_event_soon |-> FALSE,
           time_until_event |-> 0, has_started |-> FALSE,
           can_register |-> FALSE, sort_by |-> "none",
           sort_order |-> "none", events |-> <<>>]

\* ------------------------------------------------------------- queries
\* WHERE user_id = $1 AND event_id = $2
RowsFor(regs, u, e) == {r \in regs : r.user_id = u /\ r.event_id = e}

\* SELECT COUNT(*) ... WHERE event_id = e AND status = 'confirmed'
ConfirmedCount(regs, e) ==
    Cardinality({r \in regs : r.event_id = e /\ r.status = "confirmed"})

\* the status of the (single) row the controller reads, or "absent"
StatusOf(regs, u, e) ==
    IF RowsFor(regs, u, e) = {} THEN "absent"
    ELSE (CHOOSE r \in RowsFor(regs, u, e) : TRUE).status

\* --------------------------------------------------- triggers on events
\* BEFORE INSERT OR UPDATE ON events (as fired by an UPDATE)
validate_event_date(old, new, t) ==
    /\ ~(old.date_time <= t /\ new.date_time # old.date_time)
    /\ ~(new.date_time <= t)

validate_event_data(old, new, t) ==
    /\ ~(old.date_time # new.date_time /\ old.date_time <= t)
    /\ ~(old.date_time # new.date_time /\ new.date_time <= t)
    /\ ~(new.capacity <= 0 \/ new.capacity > CapacityLimitTrigger)
    /\ ~(new.capacity < old.current_registrations)
    /\ ~(new.current_registrations < 0)
    /\ ~(new.current_registrations > new.capacity)

\* CHECK constraints of table events, re-evaluated on every UPDATE
events_checks(new, t) ==
    /\ new.capacity > 0 /\ new.capacity <= CapacityLimitTable
    /\ new.current_registrations >= 0
    /\ new.date_time > t
    /\ new.current_registrations <= new.capacity

\* variant: the UPDATE without WHERE id = e
UpdateEveryEventCount(evs, e, c, t) ==
    LET old == evs[e]
        new == [old EXCEPT !.current_registrations = c]
    IN  IF /\ validate_event_date(old, new, t)
           /\ validate_event_data(old, new, t)
           /\ events_checks(new, t)
        THEN [ok |-> TRUE,
              evs |-> [x \in DOMAIN evs |->
                         [evs[x] EXCEPT !.current_registrations = c]]]
        ELSE [ok |-> FALSE, evs |-> evs]

\* UPDATE events SET current_registrations = c WHERE id = e
UpdateEventCount(evs, e, c, t) ==
    LET old == evs[e]
        new == [old EXCEPT !.current_registrations = c]
    IN  IF /\ validate_event_date(old, new, t)
           /\ validate_event_data(old, new, t)
           /\ events_checks(new, t)
        THEN [ok |-> TRUE, evs |-> [evs EXCEPT ![e] = new]]
        ELSE [ok |-> FALSE, evs |-> evs]

\* -------------------------------------------- triggers on registrations
\* BEFORE INSERT: trigger_registrations_validation
validate_event_registration(evs, e, t) ==
    /\ evs[e].is_active
    /\ ~(evs[e].date_time <= t)

\* BEFORE INSERT OR UPDATE: trigger_validate_registration_data
validate_registration_data(evs, e, status, t) ==
    /\ evs[e].is_active
    /\ ~(evs[e].date_time <= t)
    /\ ~(status = "confirmed"
         /\ evs[e].current_registrations >= evs[e].capacity)
    /\ status \in {"confirmed", "cancelled", "waitlist", "pending"}

\* CHECK (status IN ('confirmed', 'cancelled', 'waitlist'))
registrations_status_check(status) ==
    status \in {"confirmed", "cancelled", "waitlist"}

\* variant: the table without its UNIQUE constraint
no_unique_user_event_registration(regs, u, e) == TRUE

\* CONSTRAINT unique_user_event_registration UNIQUE (user_id, event_id);
\* the partial index idx_registrations_unique_active (confirmed, waitlist)
\* forbids nothing this constraint allows
unique_user_event_registration(regs, u, e) == RowsFor(regs, u, e) = {}

\* variant: the table without trigger_registrations_count_insert
no_registrations_count_insert(evs, regs, e, t) == [ok |-> TRUE, evs |-> evs]

\* AFTER INSERT: the new row is already visible to the count
update_event_registration_count_insert(evs, regs, e, t) ==
    LET current_count == ConfirmedCount(regs, e)
    IN  IF current_count >= evs[e].capacity
        THEN [ok |-> FALSE, evs |-> evs]
        ELSE UpdateEventCount(evs, e, current_count, t)

\* variant: the table without trigger_registrations_count_delete
no_registrations_count_delete(evs, regs, e, t) == [ok |-> TRUE, evs |-> evs]

\* AFTER DELETE: recount and store
update_event_registration_count_delete(evs, regs, e, t) ==
    UpdateEventCount(evs, e, ConfirmedCount(regs, e), t)

\* ------------------------------------------------------------ statements
\* INSERT INTO registrations (id, user_id, event_id, status): BEFORE
\* triggers, CHECK, unique index, AFTER trigger; err = "" when it succeeds
InsertRegistration(evs, regs, id, u, e, status, t) ==
    LET row == [id |-> id, user_id |-> u, event_id |-> e,
                status |-> status, registered_at |-> t]
        after == update_event_registration_count_insert(
                     evs, regs \cup {row}, e, t)
    IN  IF ~validate_event_registration(evs, e, t)
        THEN [err |-> "P0001", evs |-> evs, regs |-> regs]
        ELSE IF ~validate_registration_data(evs, e, status, t)
        THEN [err |-> "P0001", evs |-> evs, regs |-> regs]
        ELSE IF ~registrations_status_check(status)
        THEN [err |-> "23514", evs |-> evs, regs |-> regs]
        ELSE IF ~unique_user_event_registration(regs, u, e)
        THEN [err |-> "23505", evs |-> evs, regs |-> regs]
        ELSE IF ~after.ok
        THEN [err |-> "P0001", evs |-> evs, regs |-> regs]
        ELSE [err |-> "", evs |-> after.evs, regs |-> regs \cup {row}]

\* variant: the function without the rollback of its EXCEPTION block, so
\* that the row written before a trigger raised stays
safe_event_registration_keeping_row(evs, regs, id, u, e, t) ==
    LET ins == InsertRegistration(evs, regs, id, u, e, "confirmed", t)
        row == [id |-> id, user_id |-> u, event_id |-> e,
                status |-> "confirmed", registered_at |-> t]
    IN  IF ~evs[e].is_active
        THEN [code |-> "P0001", evs |-> evs, regs |-> regs, used |-> 0]
        ELSE IF evs[e].date_time <= t
        THEN [code |-> "P0002", evs |-> evs, regs |-> regs, used |-> 0]
        ELSE IF RowsFor(regs, u, e) # {}
        THEN [code |-> "P0003", evs |-> evs, regs |-> regs, used |-> 0]
        ELSE IF evs[e].current_registrations >= evs[e].capacity
        THEN [code |-> "P0004", evs |-> evs, regs |-> regs, used |-> 0]
        ELSE IF ins.err # ""
        THEN [code |-> ins.err, evs |-> evs, regs |-> regs \cup {row},
              used |-> 1]
        ELSE [code |-> "OK", evs |-> ins.evs, regs |-> ins.regs, used |-> 1]

\* body of safe_event_registration once it holds the event's locks; every
\* exception is caught by WHEN OTHERS and returned as error_code
safe_event_registration(evs, regs, id, u, e, t) ==
    LET ins == InsertRegistration(evs, regs, id, u, e, "confirmed", t)
    IN  IF ~evs[e].is_active
        THEN [code |-> "P0001", evs |-> evs, regs |-> regs, used |-> 0]
        ELSE IF evs[e].date_time <= t
        THEN [code |-> "P0002", evs |-> evs, regs |-> regs, used |-> 0]
        ELSE IF RowsFor(regs, u, e) # {}
        THEN [code |-> "P0003", evs |-> evs, regs |-> regs, used |-> 0]
        ELSE IF evs[e].current_registrations >= evs[e].capacity
        THEN [code |-> "P0004", evs |-> evs, regs |-> regs, used |-> 0]
        ELSE IF ins.err # ""
        THEN [code |-> ins.err, evs |-> evs, regs |-> regs, used |-> 1]
        ELSE [code |-> "OK", evs |-> ins.evs, regs |-> ins.regs, used |-> 1]

\* DELETE FROM registrations WHERE user_id = u AND event_id = e, with its
\* AFTER DELETE trigger
DeleteRegistration(evs, regs, u, e, t) ==
    LET rest == regs \ RowsFor(regs, u, e)
        after == update_event_registration_count_delete(evs, rest, e, t)
    IN  IF after.ok
        THEN [err |-> "", evs |-> after.evs, regs |-> rest]
        ELSE [err |-> "P0001", evs |-> evs, regs |-> regs]

\* the checks of safe_event_unregistration that precede its DELETE
UnregistrationCheck(evs, regs, u, e, t) ==
    IF ~evs[e].is_active THEN "P0001"
    ELSE IF evs[e].date_time <= t THEN "P0002"
    ELSE IF RowsFor(regs, u, e) = {} THEN "P0005"
    ELSE "OK"

\* ------------------------------------------------- controller's mapping
RegisterOutcome(code) ==
    IF code = "OK" THEN "Created"
    ELSE IF code = "P0003" THEN "AlreadyRegistered"
    ELSE IF code = "P0004" THEN "EventFull"
    ELSE IF code = "P0002" THEN "EventPast"
    ELSE "Error"

CancelOutcome(code) ==
    IF code = "OK" THEN "Cancelled"
    ELSE IF code = "P0005" THEN "NotRegistered"
    ELSE IF code = "P0002" THEN "EventPast"
    ELSE "Error"

\* ----------------------------------------------------------------- locks
\* pg_advisory_xact_lock(e) and the FOR UPDATE lock of the event row are
\* held across steps only by an unregistration waiting for a row lock
EventLocked(e) ==
    \E q \in Procs : pc[q] = "un_delete" /\ req[q].event = e

\* the row lock a reactivating UPDATE holds until it commits
RegLocked(id) ==
    \E q \in Procs : pc[q] \in {"rx_after", "rx_upd"} /\ regid[q] = id

AllIdle == \A q \in Procs : pc[q] = "idle"

\* --------------------------------------------------------------- actions
Finish(p, out) ==
    /\ pc' = [pc EXCEPT ![p] = "done"]
    /\ outcome' = [outcome EXCEPT ![p] = out]
    /\ ts' = [ts EXCEPT ![p] = 0]
    /\ cnt' = [cnt EXCEPT ![p] = 0]
    /\ regid' = [regid EXCEPT ![p] = 0]

Goto(p, label) ==
    /\ pc' = [pc EXCEPT ![p] = label]
    /\ UNCHANGED outcome

Tick ==
    /\ now < MaxNow
    /\ now' = now + 1
    /\ UNCHANGED <<events, registrations, nextId, pc, req, ts, regid, cnt,
                   outcome>>

\* registerForEvent, steps 2 and 3: the unlocked look at the event; u is
\* req.body.user_id || req.user.id and a is req.user.id
StartRegisterFor(p, a, u, e) ==
    /\ pc[p] = "idle"
    /\ nextId <= MaxId
    /\ req' = [req EXCEPT ![p] =
                 [op |-> "Register", actor |-> a, user |-> u, event |-> e,
                  status |-> "confirmed"]]
    /\ IF ~events[e].is_active THEN Finish(p, "NotFound")
       ELSE IF events[e].date_time <= now THEN Finish(p, "EventPast")
       ELSE IF events[e].current_registrations >= events[e].capacity
       THEN Finish(p, "EventFull")
       ELSE Goto(p, "reg_exist") /\ UNCHANGED <<ts, cnt, regid>>
    /\ UNCHANGED <<now, events, registrations, nextId>>

\* a Register without user_id in its body
StartRegister(p, u, e) == StartRegisterFor(p, u, u, e)

\* registerForEvent, step 4: the unlocked look at the registration
RegExist(p) ==
    /\ pc[p] = "reg_exist"
    /\ LET rows == RowsFor(registrations, req[p].user, req[p].event)
       IN  IF rows = {}
           THEN Goto(p, "sf_begin") /\ UNCHANGED <<ts, cnt, regid>>
           ELSE \E r \in rows :
                  IF r.status = "confirmed"
                  THEN Finish(p, "AlreadyRegistered")
                  ELSE IF r.status = "cancelled"
                  THEN /\ Goto(p, "rx_begin")
                       /\ regid' = [regid EXCEPT ![p] = r.id]
                       /\ UNCHANGED <<ts, cnt>>
                  ELSE Goto(p, "sf_begin") /\ UNCHANGED <<ts, cnt, regid>>
    /\ UNCHANGED <<now, events, registrations, nextId, req>>

\* a statement is sent: its transaction starts now
Begin(p, from, to) ==
    /\ pc[p] = from
    /\ Goto(p, to)
    /\ ts' = [ts EXCEPT ![p] = now]
    /\ UNCHANGED <<now, events, registrations, nextId, req, cnt, regid>>

SfBegin(p) == Begin(p, "sf_begin", "sf_run")
RxBegin(p) == Begin(p, "rx_begin", "rx_lock")
UnBegin(p) == Begin(p, "un_begin", "un_lock")

\* SELECT safe_event_registration(u, e), from the lock to the commit
SfRun(p) ==
    /\ pc[p] = "sf_run"
    /\ ~EventLocked(req[p].event)
    /\ LET res == safe_event_registration(events, registrations, nextId,
                      req[p].user, req[p].event, ts[p])
       IN  /\ events' = res.evs
           /\ registrations' = res.regs
           /\ nextId' = nextId + res.used
           /\ Finish(p, RegisterOutcome(res.code))
    /\ UNCHANGED <<now, req>>

\* UPDATE registrations SET status = 'confirmed' ... WHERE id = regid:
\* row lock, then the BEFORE UPDATE trigger
RxLock(p) ==
    /\ pc[p] = "rx_lock"
    /\ ~RegLocked(regid[p])
    /\ LET rows == {r \in registrations : r.id = regid[p]}
       IN  IF rows = {} THEN Finish(p, "Reactivated")
           ELSE IF ~validate_registration_data(
                       events, req[p].event, "confirmed", ts[p])
           THEN Finish(p, "Error")
           ELSE Goto(p, "rx_after") /\ UNCHANGED <<ts, cnt, regid>>
    /\ UNCHANGED <<now, events, registrations, nextId, req>>

\* variant: the UPDATE without registered_at = CURRENT_TIMESTAMP
ReactivatedKeepingDate(regs, id, t) ==
    {IF r.id = id THEN [r EXCEPT !.status = "confirmed"] ELSE r : r \in regs}

\* the row as the reactivating transaction sees it
Reactivated(regs, id, t) ==
    {IF r.id = id
     THEN [r EXCEPT !.status = "confirmed", !.registered_at = t]
     ELSE r : r \in regs}

\* AFTER UPDATE trigger: SELECT COUNT(*) INTO current_count
RxAfter(p) ==
    /\ pc[p] = "rx_after"
    /\ Goto(p, "rx_upd")
    /\ cnt' = [cnt EXCEPT ![p] = ConfirmedCount(
                  Reactivated(registrations, regid[p], ts[p]), req[p].event)]
    /\ UNCHANGED <<now, events, registrations, nextId, req, ts, regid>>

\* AFTER UPDATE trigger: UPDATE events SET current_registrations =
\* current_count, then the commit
RxUpd(p) ==
    /\ pc[p] = "rx_upd"
    /\ ~EventLocked(req[p].event)
    /\ LET res == UpdateEventCount(events, req[p].event, cnt[p], ts[p])
       IN  IF res.ok
           THEN /\ events' = res.evs
                /\ registrations' =
                       Reactivated(registrations, regid[p], ts[p])
                /\ Finish(p, "Reactivated")
           ELSE /\ UNCHANGED <<events, registrations>>
                /\ Finish(p, "Error")
    /\ UNCHANGED <<now, nextId, req>>

\* req.user.is_admin: the row of table users that protect loads has no
\* such column
is_admin(a) == FALSE

\* variant: cancelRegistration without its permission check
StartCancelUnchecked(p, a, u, e) ==
    /\ pc[p] = "idle"
    /\ req' = [req EXCEPT ![p] =
                 [op |-> "Cancel", actor |-> a, user |-> u, event |-> e,
                  status |-> "confirmed"]]
    /\ IF ~events[e].is_active THEN Finish(p, "NotFound")
       ELSE IF events[e].date_time <= now THEN Finish(p, "EventPast")
       ELSE Goto(p, "un_begin") /\ UNCHANGED <<ts, cnt, regid>>
    /\ UNCHANGED <<now, events, registrations, nextId>>

\* cancelRegistration, steps 1 to 3
StartCancel(p, a, u, e) ==
    /\ pc[p] = "idle"
    /\ req' = [req EXCEPT ![p] =
                 [op |-> "Cancel", actor |-> a, user |-> u, event |-> e,
                  status |-> "confirmed"]]
    /\ IF u # a /\ ~is_admin(a) THEN Finish(p, "Forbidden")
       ELSE IF ~events[e].is_active THEN Finish(p, "NotFound")
       ELSE IF events[e].date_time <= now THEN Finish(p, "EventPast")
       ELSE Goto(p, "un_begin") /\ UNCHANGED <<ts, cnt, regid>>
    /\ UNCHANGED <<now, events, registrations, nextId>>

\* SELECT safe_event_unregistration(u, e): locks, checks, and the DELETE
\* unless a row it must delete is locked
UnLock(p) ==
    /\ pc[p] = "un_lock"
    /\ ~EventLocked(req[p].event)
    /\ LET u == req[p].user
           e == req[p].event
           code == UnregistrationCheck(events, registrations, u, e, ts[p])
           del == DeleteRegistration(events, registrations, u, e, ts[p])
       IN  IF code # "OK"
           THEN /\ Finish(p, CancelOutcome(code))
                /\ UNCHANGED <<events, registrations>>
           ELSE IF \E r \in RowsFor(registrations, u, e) : RegLocked(r.id)
           THEN /\ Goto(p, "un_delete")
                /\ UNCHANGED <<events, registrations, ts, cnt, regid>>
           ELSE /\ events' = del.evs
                /\ registrations' = del.regs
                /\ Finish(p, CancelOutcome(IF del.err = "" THEN "OK"
                                           ELSE del.err))
    /\ UNCHANGED <<now, nextId, req>>

\* the DELETE resumes when the row lock is released
UnDelete(p) ==
    /\ pc[p] = "un_delete"
    /\ LET u == req[p].user
           e == req[p].event
           del == DeleteRegistration(events, registrations, u, e, ts[p])
       IN  /\ ~\E r \in RowsFor(registrations, u, e) : RegLocked(r.id)
           /\ events' = del.evs
           /\ registrations' = del.regs
           /\ Finish(p, CancelOutcome(IF del.err = "" THEN "OK"
                                      ELSE del.err))
    /\ UNCHANGED <<now, nextId, req>>

\* p's DELETE waits for the row q's UPDATE locked, q's trigger waits for
\* the event row p locked
Deadlocked(p, q) ==
    /\ pc[p] = "un_delete"
    /\ pc[q] = "rx_upd"
    /\ req[q].event = req[p].event
    /\ \E r \in RowsFor(registrations, req[p].user, req[p].event) :
           r.id = regid[q]

\* deadlock detection aborts the statement of whichever waiter runs it
DeadlockAbort(p) ==
    /\ \E q \in Procs : Deadlocked(p, q) \/ Deadlocked(q, p)
    /\ Finish(p, "Error")
    /\ UNCHANGED <<now, events, registrations, nextId, req>>

\* the response is sent
Return(p) ==
    /\ pc[p] = "done"
    /\ pc' = [pc EXCEPT ![p] = "idle"]
    /\ req' = [req EXCEPT ![p] = NoReq]
    /\ outcome' = [outcome EXCEPT ![p] = "none"]
    /\ UNCHANGED <<now, events, registrations, nextId, ts, regid, cnt>>

\* testHelpers.createRegistration: a direct INSERT, between requests
DirectInsert(u, e, status) ==
    /\ AllIdle
    /\ nextId <= MaxId
    /\ LET ins == InsertRegistration(events, registrations, nextId,
                                     u, e, status, now)
       IN  /\ events' = ins.evs
           /\ registrations' = ins.regs
    /\ nextId' = nextId + 1
    /\ UNCHANGED <<now, pc, req, ts, regid, cnt, outcome>>

\* ------------------------------------------- statements sent directly
\* the BEFORE triggers, the CHECK and the unique index of an INSERT
BeforeInsert(evs, regs, u, e, status, t) ==
    IF ~validate_event_registration(evs, e, t) THEN "P0001"
    ELSE IF ~validate_registration_data(evs, e, status, t) THEN "P0001"
    ELSE IF ~registrations_status_check(status) THEN "23514"
    ELSE IF ~unique_user_event_registration(regs, u, e) THEN "23505"
    ELSE ""

\* the row worker p is inserting
NewRow(p) ==
    [id |-> regid[p], user_id |-> req[p].user, event_id |-> req[p].event,
     status |-> req[p].status, registered_at |-> ts[p]]

\* INSERT INTO registrations (user_id, event_id, status) sent by a session
\* of its own
DirectBegin(p, u, e, status) ==
    /\ pc[p] = "idle"
    /\ nextId <= MaxId
    /\ req' = [req EXCEPT ![p] =
                 [op |-> "Insert", actor |-> u, user |-> u, event |-> e,
                  status |-> status]]
    /\ Goto(p, "di_row")
    /\ ts' = [ts EXCEPT ![p] = now]
    /\ regid' = [regid EXCEPT ![p] = nextId]
    /\ nextId' = nextId + 1
    /\ UNCHANGED <<now, events, registrations, cnt>>

\* the row is written and the AFTER INSERT trigger counts; an INSERT of
\* the same pair by a transaction still open makes the unique index wait
DiRow(p) ==
    /\ pc[p] = "di_row"
    /\ ~\E q \in Procs : /\ q # p /\ pc[q] = "di_upd"
                         /\ req[q].user = req[p].user
                         /\ req[q].event = req[p].event
    /\ LET e == req[p].event
           err == BeforeInsert(events, registrations, req[p].user, e,
                               req[p].status, ts[p])
           current_count == ConfirmedCount(registrations \cup {NewRow(p)}, e)
       IN  IF err # "" \/ current_count >= events[e].capacity
           THEN Finish(p, "Error")
           ELSE /\ Goto(p, "di_upd")
                /\ cnt' = [cnt EXCEPT ![p] = current_count]
                /\ UNCHANGED <<ts, regid>>
    /\ UNCHANGED <<now, events, registrations, nextId, req>>

\* AFTER INSERT trigger: UPDATE events SET current_registrations =
\* current_count, then the commit
DiUpd(p) ==
    /\ pc[p] = "di_upd"
    /\ ~EventLocked(req[p].event)
    /\ LET res == UpdateEventCount(events, req[p].event, cnt[p], ts[p])
       IN  IF res.ok
           THEN /\ events' = res.evs
                /\ registrations' = registrations \cup {NewRow(p)}
                /\ Finish(p, "Inserted")
           ELSE /\ UNCHANGED <<events, registrations>>
                /\ Finish(p, "Error")
    /\ UNCHANGED <<now, nextId, req>>

\* UPDATE registrations SET status = 'confirmed', registered_at =
\* CURRENT_TIMESTAMP WHERE id = id, sent by a session of its own
DirectUpdate(p, id) ==
    /\ pc[p] = "idle"
    /\ \E r \in registrations :
         /\ r.id = id
         /\ req' = [req EXCEPT ![p] =
                      [op |-> "Update", actor |-> r.user_id,
                       user |-> r.user_id, event |-> r.event_id,
                       status |-> "confirmed"]]
    /\ Goto(p, "rx_lock")
    /\ ts' = [ts EXCEPT ![p] = now]
    /\ regid' = [regid EXCEPT ![p] = id]
    /\ UNCHANGED <<now, events, registrations, nextId, cnt>>

\* DELETE FROM registrations WHERE user_id = u AND event_id = e, sent by a
\* session of its own (its trigger is taken in one step)
DirectDelete(p, u, e) ==
    /\ pc[p] = "idle"
    /\ RowsFor(registrations, u, e) # {}
    /\ ~\E r \in RowsFor(registrations, u, e) : RegLocked(r.id)
    /\ req' = [req EXCEPT ![p] =
                 [op |-> "Delete", actor |-> u, user |-> u, event |-> e,
                  status |-> "confirmed"]]
    /\ LET del == DeleteRegistration(events, registrations, u, e, now)
       IN  /\ events' = del.evs
           /\ registrations' = del.regs
           /\ Finish(p, IF del.err = "" THEN "Deleted" ELSE "Error")
    /\ UNCHANGED <<now, nextId>>

\* UPDATE events SET is_active = false WHERE id = e (soft delete), with
\* the triggers and CHECKs of table events
Deactivate(e) ==
    /\ events[e].is_active
    /\ ~EventLocked(e)
    /\ LET old == events[e]
           new == [old EXCEPT !.is_active = FALSE]
       IN  /\ validate_event_date(old, new, now)
           /\ validate_event_data(old, new, now)
           /\ events_checks(new, now)
           /\ events' = [events EXCEPT ![e] = new]
    /\ UNCHANGED <<now, registrations, nextId, pc, req, ts, regid, cnt,
                   outcome>>

\* ------------------------------------------------------------------ Init
\* events exist, future-dated and empty; no request is in progress
Init ==
    /\ now = 0
    /\ events \in [Events -> {[capacity |-> c, date_time |-> DateTime,
                               is_active |-> TRUE,
                               current_registrations |-> 0] :
                              c \in 1..MaxCap}]
    /\ events["e2"].capacity = MaxCap
    /\ registrations = {}
    /\ nextId = 1
    /\ pc = [p \in Procs |-> "idle"]
    /\ req = [p \in Procs |-> NoReq]
    /\ ts = [p \in Procs |-> 0]
    /\ regid = [p \in Procs |-> 0]
    /\ cnt = [p \in Procs |-> 0]
    /\ outcome = [p \in Procs |-> "none"]
    /\ cycle = NoCycle
    /\ view = NoView
    /\ created = {}
    /\ nextEventId = 1
    /\ create = [p \in Procs |-> NoCreate]
    /\ calls = [p \in Procs |-> NoCall]
    /\ eventRow = [p \in Procs |-> NoRow]
    /\ batch = NoBatch
    /\ pool = NoPool
    /\ retry = NoRetry
    /\ manager = NoManager
    /\ init = [p \in Procs |-> "idle"]
    /\ migrations = [checksum |-> [f \in 1..MaxFiles |-> 1],
                     schema_migrations |-> {},
                     committed |-> <<>>,
                     run |-> NoRun]

\* ------------------------------------------------------------- observer
\* cycle follows one user through Register, Cancel, Register on an event
\* that had a free place: stage 1, 3, 5 while the call is in progress,
\* 2, 4, 6 once it succeeded, 11, 13, 15 once it did not
CycleOnFinish(c, p) ==
    LET u == c.user
        e == c.event
        good ==
            IF c.stage = 1 THEN outcome'[p] = "Created"
            ELSE IF c.stage = 3 THEN outcome'[p] = "Cancelled"
            ELSE /\ outcome'[p] \in {"Created", "Reactivated"}
                 /\ Cardinality({r \in RowsFor(registrations', u, e) :
                                   r.status = "confirmed"}) = 1
                 /\ events'[e].current_registrations = c.c0 + 1
    IN  IF c.stage \notin {1, 3, 5} \/ pc'[p] # "done" THEN c
        ELSE IF events'[e].date_time <= now' THEN NoCycle
        ELSE IF good THEN [c EXCEPT !.stage = c.stage + 1]
        ELSE [c EXCEPT !.stage = c.stage + 10]

CycleOnStart(p, op, u, e) ==
    LET free == /\ op = "Register"
                /\ RowsFor(registrations, u, e) = {}
                /\ events[e].is_active
                /\ events[e].date_time > now
                /\ events[e].current_registrations < events[e].capacity
        same == u = cycle.user /\ e = cycle.event
        c == IF cycle.stage = 2 /\ op = "Cancel" /\ same
             THEN [cycle EXCEPT !.stage = 3]
             ELSE IF cycle.stage = 4 /\ op = "Register" /\ same
             THEN [cycle EXCEPT !.stage = 5]
             ELSE IF free
             THEN [stage |-> 1, user |-> u, event |-> e,
                   c0 |-> events[e].current_registrations]
             ELSE NoCycle
    IN  CycleOnFinish(c, p)

\* Register and Cancel requests of any users on any events, interleaved
Next ==
    \/ Tick /\ UNCHANGED <<cycle, view, side>>
    \/ \E p \in Workers, u \in Users, e \in Events :
           StartRegister(p, u, e) /\ UNCHANGED <<cycle, view, side>>
    \/ \E p \in Workers, u \in Users, e \in Events :
           StartCancel(p, u, u, e) /\ UNCHANGED <<cycle, view, side>>
    \/ \E p \in Workers : RegExist(p) /\ UNCHANGED <<cycle, view, side>>
    \/ \E p \in Workers : SfBegin(p) /\ UNCHANGED <<cycle, view, side>>
    \/ \E p \in Workers : SfRun(p) /\ UNCHANGED <<cycle, view, side>>
    \/ \E p \in Workers : UnBegin(p) /\ UNCHANGED <<cycle, view, side>>
    \/ \E p \in Workers : UnLock(p) /\ UNCHANGED <<cycle, view, side>>
    \/ \E p \in Workers : Return(p) /\ UNCHANGED <<cycle, view, side>>

Spec == Init /\ [][Next]_vars

\* the same on one event, with rows also inserted directly between requests
NextStore ==
    \/ Tick /\ UNCHANGED <<cycle, view, side>>
    \/ \E p \in Workers, u \in Users :
           StartRegister(p, u, "e1") /\ UNCHANGED <<cycle, view, side>>
    \/ \E p \in Workers, u \in Users :
           StartCancel(p, u, u, "e1") /\ UNCHANGED <<cycle, view, side>>
    \/ \E p \in Workers : RegExist(p) /\ UNCHANGED <<cycle, view, side>>
    \/ \E p \in Workers : SfBegin(p) /\ UNCHANGED <<cycle, view, side>>
    \/ \E p \in Workers : SfRun(p) /\ UNCHANGED <<cycle, view, side>>
    \/ \E p \in Workers : UnBegin(p) /\ UNCHANGED <<cycle, view, side>>
    \/ \E p \in Workers : UnLock(p) /\ UNCHANGED <<cycle, view, side>>
    \/ \E p \in Workers : RxBegin(p) /\ UNCHANGED <<cycle, view, side>>
    \/ \E p \in Workers : RxLock(p) /\ UNCHANGED <<cycle, view, side>>
    \/ \E p \in Workers : RxAfter(p) /\ UNCHANGED <<cycle, view, side>>
    \/ \E p \in Workers : RxUpd(p) /\ UNCHANGED <<cycle, view, side>>
    \/ \E p \in Workers : UnDelete(p) /\ UNCHANGED <<cycle, view, side>>
    \/ \E p \in Workers : DeadlockAbort(p) /\ UNCHANGED <<cycle, view, side>>
    \/ \E p \in Workers : Return(p) /\ UNCHANGED <<cycle, view, side>>
    \/ \E u \in Users, st \in InsertStatuses :
           DirectInsert(u, "e1", st) /\ UNCHANGED <<cycle, view, side>>

SpecStore == Init /\ [][NextStore]_vars

\* registerForEvent keeps the row of its step 2 in const event: the
\* responses of steps 4 and 7 are computed from it
KeepEvent(p, e) ==
    eventRow' = [eventRow EXCEPT ![p] =
        [capacity |-> events[e].capacity,
         current_registrations |-> events[e].current_registrations]]

\* data.event.current_registrations of the 201 response
current_registrations_sent(p) == eventRow[p].current_registrations + 1

\* data.event.available_spots of the 201 and of the 200 response
available_spots_sent(p) ==
    eventRow[p].capacity - eventRow[p].current_registrations - 1

\* Register and Cancel calls on e1, with cancelled rows to reactivate, and
\* the event row each Register answers from
NextRespond ==
    \/ \E p \in Workers, u \in Users :
           StartRegister(p, u, "e1") /\ KeepEvent(p, "e1")
           /\ UNCHANGED <<cycle, view, created, nextEventId, create, calls,
                          batch, infra>>
    \/ \E p \in Workers, u \in Users :
           StartCancel(p, u, u, "e1") /\ UNCHANGED <<cycle, view, side>>
    \/ \E p \in Workers : RegExist(p) /\ UNCHANGED <<cycle, view, side>>
    \/ \E p \in Workers : SfBegin(p) /\ UNCHANGED <<cycle, view, side>>
    \/ \E p \in Workers : SfRun(p) /\ UNCHANGED <<cycle, view, side>>
    \/ \E p \in Workers : UnBegin(p) /\ UNCHANGED <<cycle, view, side>>
    \/ \E p \in Workers : UnLock(p) /\ UNCHANGED <<cycle, view, side>>
    \/ \E p \in Workers : RxBegin(p) /\ UNCHANGED <<cycle, view, side>>
    \/ \E p \in Workers : RxLock(p) /\ UNCHANGED <<cycle, view, side>>
    \/ \E p \in Workers : RxAfter(p) /\ UNCHANGED <<cycle, view, side>>
    \/ \E p \in Workers : RxUpd(p) /\ UNCHANGED <<cycle, view, side>>
    \/ \E p \in Workers : UnDelete(p) /\ UNCHANGED <<cycle, view, side>>
    \/ \E p \in Workers : DeadlockAbort(p) /\ UNCHANGED <<cycle, view, side>>
    \/ \E p \in Workers :
           Return(p) /\ eventRow' = [eventRow EXCEPT ![p] = NoRow]
           /\ UNCHANGED <<cycle, view, created, nextEventId, create, calls,
                          batch, infra>>
    \/ \E u \in Users :
           DirectInsert(u, "e1", "cancelled")
           /\ UNCHANGED <<cycle, view, side>>

SpecRespond == Init /\ [][NextRespond]_vars

\* ------------------------------------------ batch_event_registration
\* the lists of user ids a batch is called with
MaxList == 2
UserLists == UNION {[1..n -> Users] : n \in 0..MaxList}

\* FOREACH user_id IN ARRAY p_user_ids LOOP: each call of
\* safe_event_registration is a block of its own inside the one transaction
RECURSIVE batch_loop(_, _, _, _, _, _)
batch_loop(evs, regs, id, L, e, t) ==
    IF L = <<>>
    THEN [evs |-> evs, regs |-> regs, id |-> id, results |-> <<>>]
    ELSE LET single_result ==
                 safe_event_registration(evs, regs, id, Head(L), e, t)
             rest == batch_loop(single_result.evs, single_result.regs,
                                id + single_result.used, Tail(L), e, t)
         IN  [rest EXCEPT !.results = <<single_result.code>> \o @]

\* success_count (ok) or error_count (~ok) over the results
RECURSIVE CountOf(_, _)
CountOf(s, ok) ==
    IF s = <<>> THEN 0
    ELSE (IF (Head(s) = "OK") = ok THEN 1 ELSE 0) + CountOf(Tail(s), ok)

\* SELECT batch_event_registration(L, e)
batch_event_registration(L, e) ==
    /\ AllIdle
    /\ ~batch.called
    /\ nextId + Len(L) <= MaxId + 1
    /\ LET run == batch_loop(events, registrations, nextId, L, e, now)
       IN  /\ events' = run.evs
           /\ registrations' = run.regs
           /\ nextId' = run.id
           /\ batch' = [called |-> TRUE, p_user_ids |-> L,
                        details |-> run.results,
                        total_processed |-> Len(L),
                        successful_registrations |->
                            CountOf(run.results, TRUE),
                        failed_registrations |->
                            CountOf(run.results, FALSE)]
    /\ UNCHANGED <<now, pc, req, ts, regid, cnt, outcome, cycle, view,
                   created, nextEventId, create, calls, eventRow, infra>>

\* the caller has read the result
BatchReturn ==
    /\ batch.called
    /\ batch' = NoBatch
    /\ UNCHANGED <<now, events, registrations, nextId, pc, req, ts, regid,
                   cnt, outcome, cycle, view, created, nextEventId, create,
                   calls, eventRow, infra>>

\* registerForEvent run alone at instant t: steps 2 to 5 with nothing in
\* between
registerForEvent(evs, regs, id, u, e, t) ==
    LET same == [out |-> "", evs |-> evs, regs |-> regs, id |-> id]
        rows == RowsFor(regs, u, e)
    IN  IF ~evs[e].is_active THEN [same EXCEPT !.out = "NotFound"]
        ELSE IF evs[e].date_time <= t THEN [same EXCEPT !.out = "EventPast"]
        ELSE IF evs[e].current_registrations >= evs[e].capacity
        THEN [same EXCEPT !.out = "EventFull"]
        ELSE IF \E r \in rows : r.status = "confirmed"
        THEN [same EXCEPT !.out = "AlreadyRegistered"]
        ELSE IF \E r \in rows : r.status = "cancelled"
        THEN LET r == CHOOSE x \in rows : x.status = "cancelled"
                 after == Reactivated(regs, r.id, t)
                 res == UpdateEventCount(
                            evs, e, ConfirmedCount(after, e), t)
             IN  IF ~validate_registration_data(evs, e, "confirmed", t)
                 THEN [same EXCEPT !.out = "Error"]
                 ELSE IF res.ok
                 THEN [out |-> "Reactivated", evs |-> res.evs,
                       regs |-> after, id |-> id]
                 ELSE [same EXCEPT !.out = "Error"]
        ELSE LET res == safe_event_registration(evs, regs, id, u, e, t)
             IN  [out |-> RegisterOutcome(res.code), evs |-> res.evs,
                  regs |-> res.regs, id |-> id + res.used]

\* Register called for each user of L in turn
RECURSIVE RegisterEach(_, _, _, _, _, _)
RegisterEach(evs, regs, id, L, e, t) ==
    IF L = <<>>
    THEN [evs |-> evs, regs |-> regs, id |-> id, outs |-> <<>>]
    ELSE LET one == registerForEvent(evs, regs, id, Head(L), e, t)
             rest == RegisterEach(one.evs, one.regs, one.id, Tail(L), e, t)
         IN  [rest EXCEPT !.outs = <<one.out>> \o @]

\* batches on e1 between direct writes of rows of every status
NextBatch ==
    \/ Tick /\ UNCHANGED <<cycle, view, side>>
    \/ \E u \in Users, st \in InsertStatuses :
           DirectInsert(u, "e1", st) /\ UNCHANGED <<cycle, view, side>>
    \/ \E L \in UserLists : batch_event_registration(L, "e1")
    \/ BatchReturn

SpecBatch == Init /\ [][NextBatch]_vars

\* ---------------------------------------------- DatabasePool: reconnection
\* timers pending at once
MaxTimers == 3

\* variant: a handler that schedules a test after every failure
handleConnectionErrorUnbounded(pl) ==
    LET n == pl.connectionAttempts + 1
    IN  [pl EXCEPT !.isConnected = FALSE, !.connectionAttempts = n,
                   !.emitted = "none",
                   !.timers = @ (+) SetToBag({reconnectDelay * n})]

\* handleConnectionError, on the pool as it stands
handleConnectionError(pl) ==
    LET n == pl.connectionAttempts + 1
    IN  IF n >= maxConnectionAttempts
        THEN [pl EXCEPT !.isConnected = FALSE, !.connectionAttempts = n,
                        !.emitted = "maxRetriesReached"]
        ELSE [pl EXCEPT !.isConnected = FALSE, !.connectionAttempts = n,
                        !.emitted = "none",
                        !.timers = @ (+) SetToBag({reconnectDelay * n})]

\* this.pool.on('connect')
onConnect(pl) ==
    [pl EXCEPT !.isConnected = TRUE, !.connectionAttempts = 0,
               !.emitted = "connect"]

\* what the observer notes when a failure has been handled
Failed(before, after) ==
    retry' = [failures |-> retry.failures + 1,
              scheduled |-> retry.scheduled
                  + BagCardinality(after.timers)
                  - BagCardinality(before.timers),
              delay |-> IF after.timers = before.timers THEN 0
                        ELSE CHOOSE d \in BagToSet(after.timers) :
                                 CopiesIn(d, after.timers)
                                     > CopiesIn(d, before.timers)]

Connected == retry' = NoRetry

\* this.pool.on('error'): an idle client failed
PoolError ==
    /\ BagCardinality(pool.timers) < MaxTimers
    /\ pool.connectionAttempts <= maxConnectionAttempts
    /\ pool' = handleConnectionError(pool)
    /\ Failed(pool, pool')
    /\ UNCHANGED <<engine, created, nextEventId, create, calls, eventRow,
                   batch, manager, init,
                   migrations>>

\* a statement of a request or of the health check opens a new connection
PoolConnect ==
    /\ pool' = onConnect(pool)
    /\ Connected
    /\ UNCHANGED <<engine, created, nextEventId, create, calls, eventRow,
                   batch, manager, init,
                   migrations>>

\* a timer fires, testConnection: pool.connect() fails, or it hands out an
\* idle client or a new connection, and the query succeeds or fails
testConnection(d, connect, query) ==
    /\ BagIn(d, pool.timers)
    /\ LET fired == [pool EXCEPT !.timers = @ (-) SetToBag({d})]
           got == IF connect = "new" THEN onConnect(fired) ELSE fired
       IN  IF connect = "fails" \/ ~query
           THEN /\ pool' = handleConnectionError(got)
                /\ IF connect = "new"
                   THEN retry' = [failures |-> 1, scheduled |-> 1,
                                  delay |-> reconnectDelay]
                   ELSE Failed(fired, pool')
           ELSE /\ pool' = [got EXCEPT !.emitted = "reconnect"]
                /\ IF connect = "new" THEN Connected ELSE UNCHANGED retry
    /\ UNCHANGED <<engine, created, nextEventId, create, calls, eventRow,
                   batch, manager, init,
                   migrations>>

NextPool ==
    \/ PoolError
    \/ PoolConnect
    \/ \E d \in BagToSet(pool.timers), c \in {"fails", "idle", "new"},
          q \in BOOLEAN : testConnection(d, c, q)

SpecPool == Init /\ [][NextPool]_vars

\* ------------------------------------------- DatabaseManager.initialize
\* pools created in all
MaxPools == 3

\* EventController.initialize, up to the first await: nothing to do when the
\* controller has its pool; else DatabaseManager.initialize, which returns
\* the pool when isInitialized and else constructs a DatabasePool (with its
\* health-check timer) and starts testConnection
initialize(p) ==
    /\ init[p] = "idle"
    /\ IF manager.controllerPool # 0
       THEN init' = [init EXCEPT ![p] = "ready"] /\ UNCHANGED manager
       ELSE IF manager.isInitialized
       THEN /\ init' = [init EXCEPT ![p] = "ready"]
            /\ manager' = [manager EXCEPT !.controllerPool = manager.pool]
       ELSE /\ manager.created < MaxPools
            /\ init' = [init EXCEPT ![p] = "testConnection"]
            /\ manager' = [manager EXCEPT
                              !.pool = manager.created + 1,
                              !.created = @ + 1,
                              !.healthChecks = @ + 1]
    /\ UNCHANGED <<engine, created, nextEventId, create, calls, eventRow,
                   batch, pool, retry,
                   migrations>>

\* await this.pool.testConnection() returns or throws; the catch block
\* logs the failure and rethrows
TestedConnection(p, ok) ==
    /\ init[p] = "testConnection"
    /\ init' = [init EXCEPT ![p] = IF ok THEN "runMigrations" ELSE "failed"]
    /\ manager' = [manager EXCEPT !.failed = IF ok THEN @ ELSE @ + 1]
    /\ UNCHANGED <<engine, created, nextEventId, create, calls, eventRow,
                   batch, pool, retry,
                   migrations>>

\* await this.runMigrations() returns or throws; on return isInitialized
\* is set and the controller takes getPool()
RanMigrations(p, ok) ==
    /\ init[p] = "runMigrations"
    /\ init' = [init EXCEPT ![p] = IF ok THEN "ready" ELSE "failed"]
    /\ manager' = [manager EXCEPT
                      !.migrationRuns = @ + 1,
                      !.failed = IF ok THEN @ ELSE @ + 1,
                      !.isInitialized = IF ok THEN TRUE ELSE @,
                      !.controllerPool = IF ok THEN manager.pool ELSE @]
    /\ UNCHANGED <<engine, created, nextEventId, create, calls, eventRow,
                   batch, pool, retry,
                   migrations>>

\* the request is answered
Answered(p) ==
    /\ init[p] \in {"ready", "failed"}
    /\ init' = [init EXCEPT ![p] = "idle"]
    /\ UNCHANGED <<engine, created, nextEventId, create, calls, eventRow,
                   batch, pool, retry, manager,
                   migrations>>

NextInit ==
    \/ \E p \in Procs : initialize(p)
    \/ \E p \in Procs, ok \in BOOLEAN : TestedConnection(p, ok)
    \/ \E p \in Procs, ok \in BOOLEAN : RanMigrations(p, ok)
    \/ \E p \in Procs : Answered(p)

SpecInit == Init /\ [][NextInit]_vars

\* --------------------------------------------------- MigrationRunner
\* getMigrationFiles: readdirSync(...).filter(.sql).sort()
getMigrationFiles == 1..MaxFiles

\* the elements of a set of filenames in ascending order
RECURSIVE Sorted(_)
Sorted(S) ==
    IF S = {} THEN <<>>
    ELSE LET m == CHOOSE x \in S : \A y \in S : x <= y
         IN  <<m>> \o Sorted(S \ {m})

\* variant: a validation that accepts every file
validateMigrationSkipped(m, applied) == TRUE

\* validateMigration: the file's current checksum is the recorded one
validateMigration(m, applied) ==
    m.checksum[applied.filename] = applied.checksum

\* a migration file is edited between two runs
EditFile(f) ==
    /\ migrations.run.pc = "idle"
    /\ migrations' = [migrations EXCEPT !.checksum[f] = 3 - @]
    /\ UNCHANGED <<engine, created, nextEventId, create, calls, eventRow,
                   batch, pool, retry, manager, init>>

\* runPendingMigrations up to its loop: the applied files are validated,
\* the pending ones are the files not recorded, in filename order
runPendingMigrations ==
    /\ migrations.run.pc = "idle"
    /\ LET appliedMigrations == migrations.schema_migrations
           migrationFiles == getMigrationFiles
           appliedFilenames == {a.filename : a \in appliedMigrations}
           pendingMigrations ==
               Sorted({f \in migrationFiles : f \notin appliedFilenames})
       IN  migrations' = [migrations EXCEPT !.run =
               IF \E a \in appliedMigrations :
                      /\ a.filename \in migrationFiles
                      /\ ~validateMigration(migrations, a)
               THEN [pc |-> "failed", pending |-> <<>>,
                     error |-> "modified"]
               ELSE IF pendingMigrations = <<>>
               THEN [pc |-> "done", pending |-> <<>>, error |-> "none"]
               ELSE [pc |-> "apply", pending |-> pendingMigrations,
                     error |-> "none"]]
    /\ UNCHANGED <<engine, created, nextEventId, create, calls, eventRow,
                   batch, pool, retry, manager, init>>

\* applyMigration of the next pending file: withTransaction runs the
\* file's SQL and the INSERT into schema_migrations and commits both, or
\* rolls both back and the run ends with the error
applyMigration(ok) ==
    /\ migrations.run.pc = "apply"
    /\ LET filename == Head(migrations.run.pending)
           rest == Tail(migrations.run.pending)
       IN  migrations' =
               IF ok
               THEN [migrations EXCEPT
                       !.committed = Append(@, filename),
                       !.schema_migrations = @ \cup
                           {[filename |-> filename,
                             checksum |-> migrations.checksum[filename]]},
                       !.run = IF rest = <<>>
                               THEN [pc |-> "done", pending |-> <<>>,
                                     error |-> "none"]
                               ELSE [@ EXCEPT !.pending = rest]]
               ELSE [migrations EXCEPT
                       !.run = [pc |-> "failed", pending |-> <<>>,
                                error |-> "apply"]]
    /\ UNCHANGED <<engine, created, nextEventId, create, calls, eventRow,
                   batch, pool, retry, manager, init>>

\* runPendingMigrations has returned or thrown
RunEnded ==
    /\ migrations.run.pc \in {"done", "failed"}
    /\ migrations' = [migrations EXCEPT !.run = NoRun]
    /\ UNCHANGED <<engine, created, nextEventId, create, calls, eventRow,
                   batch, pool, retry, manager, init>>

NextMigrate ==
    \/ \E f \in getMigrationFiles : EditFile(f)
    \/ runPendingMigrations
    \/ \E ok \in BOOLEAN : applyMigration(ok)
    \/ RunEnded

SpecMigrate == Init /\ [][NextMigrate]_vars

\* one request at a time: each starts when the one before has returned
NextSeq ==
    \/ Tick /\ UNCHANGED <<cycle, view, side>>
    \/ \E p \in Workers, u \in Users :
           /\ AllIdle
           /\ StartRegister(p, u, "e1")
           /\ cycle' = CycleOnStart(p, "Register", u, "e1")
           /\ UNCHANGED <<view, side>>
    \/ \E p \in Workers, u \in Users :
           /\ AllIdle
           /\ StartCancel(p, u, u, "e1")
           /\ cycle' = CycleOnStart(p, "Cancel", u, "e1")
           /\ UNCHANGED <<view, side>>
    \/ \E p \in Workers :
           /\ RegExist(p)
           /\ cycle' = CycleOnFinish(cycle, p)
           /\ UNCHANGED <<view, side>>
    \/ \E p \in Workers : SfBegin(p) /\ UNCHANGED <<cycle, view, side>>
    \/ \E p \in Workers :
           /\ SfRun(p)
           /\ cycle' = CycleOnFinish(cycle, p)
           /\ UNCHANGED <<view, side>>
    \/ \E p \in Workers : UnBegin(p) /\ UNCHANGED <<cycle, view, side>>
    \/ \E p \in Workers :
           /\ UnLock(p)
           /\ cycle' = CycleOnFinish(cycle, p)
           /\ UNCHANGED <<view, side>>
    \/ \E p \in Workers : RxBegin(p) /\ UNCHANGED <<cycle, view, side>>
    \/ \E p \in Workers :
           /\ RxLock(p)
           /\ cycle' = CycleOnFinish(cycle, p)
           /\ UNCHANGED <<view, side>>
    \/ \E p \in Workers : RxAfter(p) /\ UNCHANGED <<cycle, view, side>>
    \/ \E p \in Workers :
           /\ RxUpd(p)
           /\ cycle' = CycleOnFinish(cycle, p)
           /\ UNCHANGED <<view, side>>
    \/ \E p \in Workers : Return(p) /\ UNCHANGED <<cycle, view, side>>
    \/ \E u \in Users, st \in InsertStatuses :
           /\ DirectInsert(u, "e1", st)
           /\ cycle' = NoCycle
           /\ UNCHANGED <<view, side>>
    \/ \E p \in Workers, a \in Users, u \in Users :
           /\ a # u
           /\ AllIdle
           /\ StartCancel(p, a, u, "e1")
           /\ cycle' = NoCycle
           /\ UNCHANGED <<view, side>>
    \/ \E p \in Workers, a \in Users, u \in Users :
           /\ a # u
           /\ AllIdle
           /\ StartRegisterFor(p, a, u, "e1")
           /\ cycle' = NoCycle
           /\ UNCHANGED <<view, side>>

SpecSeq == Init /\ [][NextSeq]_vars

\* Register and Cancel on an event that can be deactivated meanwhile
NextActive ==
    \/ Tick /\ UNCHANGED <<cycle, view, side>>
    \/ Deactivate("e1") /\ UNCHANGED <<cycle, view, side>>
    \/ \E p \in Workers, u \in Users :
           StartRegister(p, u, "e1") /\ UNCHANGED <<cycle, view, side>>
    \/ \E p \in Workers, u \in Users :
           StartCancel(p, u, u, "e1") /\ UNCHANGED <<cycle, view, side>>
    \/ \E p \in Workers : RegExist(p) /\ UNCHANGED <<cycle, view, side>>
    \/ \E p \in Workers : SfBegin(p) /\ UNCHANGED <<cycle, view, side>>
    \/ \E p \in Workers : SfRun(p) /\ UNCHANGED <<cycle, view, side>>
    \/ \E p \in Workers : UnBegin(p) /\ UNCHANGED <<cycle, view, side>>
    \/ \E p \in Workers : UnLock(p) /\ UNCHANGED <<cycle, view, side>>
    \/ \E p \in Workers : Return(p) /\ UNCHANGED <<cycle, view, side>>

SpecActive == Init /\ [][NextActive]_vars

\* events.created_by of the events that exist from the start
Owner == [e \in Events |-> IF e = "e1" THEN "u1" ELSE "u2"]

\* ----------------------------------------------------- updating an event
\* variant: the UPDATE with no trigger and no CHECK on table events
UpdateCapacityUnchecked(p, e, c) ==
    /\ pc[p] = "idle"
    /\ ~EventLocked(e)
    /\ req' = [req EXCEPT ![p] =
                 [op |-> "UpdateCapacity", actor |-> Owner[e],
                  user |-> Owner[e], event |-> e, status |-> "confirmed",
                  capacity |-> c]]
    /\ events' = [events EXCEPT ![e].capacity = c]
    /\ Finish(p, "Updated")
    /\ UNCHANGED <<now, registrations, nextId>>

\* UPDATE events SET capacity = c WHERE id = e: the row lock, the BEFORE
\* UPDATE triggers on the row as last committed, the CHECKs
UpdateCapacity(p, e, c) ==
    /\ pc[p] = "idle"
    /\ ~EventLocked(e)
    /\ req' = [req EXCEPT ![p] =
                 [op |-> "UpdateCapacity", actor |-> Owner[e],
                  user |-> Owner[e], event |-> e, status |-> "confirmed",
                  capacity |-> c]]
    /\ LET old == events[e]
           new == [old EXCEPT !.capacity = c]
       IN  IF /\ validate_event_date(old, new, now)
              /\ validate_event_data(old, new, now)
              /\ events_checks(new, now)
           THEN events' = [events EXCEPT ![e] = new] /\ Finish(p, "Updated")
           ELSE UNCHANGED events /\ Finish(p, "Error")
    /\ UNCHANGED <<now, registrations, nextId>>

\* UPDATE events SET date_time = d WHERE id = e is sent: its transaction
\* starts now
UpdateDateBegin(p, e, d) ==
    /\ pc[p] = "idle"
    /\ req' = [req EXCEPT ![p] =
                 [op |-> "UpdateDate", actor |-> Owner[e],
                  user |-> Owner[e], event |-> e, status |-> "confirmed",
                  date_time |-> d]]
    /\ Goto(p, "ud_run")
    /\ ts' = [ts EXCEPT ![p] = now]
    /\ UNCHANGED <<now, events, registrations, nextId, cnt, regid>>

\* the UPDATE has the row lock: BEFORE UPDATE triggers and CHECKs, with
\* CURRENT_TIMESTAMP the start of its transaction, then the commit
UpdateDateRun(p) ==
    /\ pc[p] = "ud_run"
    /\ ~EventLocked(req[p].event)
    /\ LET e == req[p].event
           old == events[e]
           new == [old EXCEPT !.date_time = req[p].date_time]
       IN  IF /\ validate_event_date(old, new, ts[p])
              /\ validate_event_data(old, new, ts[p])
              /\ events_checks(new, ts[p])
           THEN events' = [events EXCEPT ![e] = new] /\ Finish(p, "Updated")
           ELSE UNCHANGED events /\ Finish(p, "Error")
    /\ UNCHANGED <<now, registrations, nextId, req>>

\* the date_time of events is updated while time passes
NextDate ==
    \/ Tick /\ UNCHANGED <<cycle, view, side>>
    \/ \E p \in Workers, e \in Events, d \in 1..(DateTime + 1) :
           UpdateDateBegin(p, e, d) /\ UNCHANGED <<cycle, view, side>>
    \/ \E p \in Workers : UpdateDateRun(p) /\ UNCHANGED <<cycle, view, side>>
    \/ \E p \in Workers : Return(p) /\ UNCHANGED <<cycle, view, side>>

SpecDate == Init /\ [][NextDate]_vars

\* Register and Cancel calls on e1 while its capacity is updated
NextCapacity ==
    \/ Tick /\ UNCHANGED <<cycle, view, side>>
    \/ \E p \in Workers, u \in Users :
           StartRegister(p, u, "e1") /\ UNCHANGED <<cycle, view, side>>
    \/ \E p \in Workers, u \in Users :
           StartCancel(p, u, u, "e1") /\ UNCHANGED <<cycle, view, side>>
    \/ \E p \in Workers : RegExist(p) /\ UNCHANGED <<cycle, view, side>>
    \/ \E p \in Workers : SfBegin(p) /\ UNCHANGED <<cycle, view, side>>
    \/ \E p \in Workers : SfRun(p) /\ UNCHANGED <<cycle, view, side>>
    \/ \E p \in Workers : UnBegin(p) /\ UNCHANGED <<cycle, view, side>>
    \/ \E p \in Workers : UnLock(p) /\ UNCHANGED <<cycle, view, side>>
    \/ \E p \in Workers : Return(p) /\ UNCHANGED <<cycle, view, side>>
    \/ \E p \in Workers, c \in 0..(MaxCap + 1) :
           UpdateCapacity(p, "e1", c) /\ UNCHANGED <<cycle, view, side>>

SpecCapacity == Init /\ [][NextCapacity]_vars

\* ------------------------------------------------------ deleting a user
\* DELETE FROM users WHERE id = u, through the ON DELETE CASCADE of
\* events.created_by and of registrations.user_id and event_id.  The
\* owned events go first and take their registrations with them (the
\* count trigger then finds no event row to update); every other
\* registration of u fires the AFTER DELETE count trigger on its event.
\* One failing trigger undoes the whole statement.
DeleteUserCascade(evs, regs, u, t) ==
    LET owned == {e \in DOMAIN evs : Owner[e] = u}
        rest == {r \in regs : r.user_id # u /\ r.event_id \notin owned}
        touched == {e \in DOMAIN evs \ owned : RowsFor(regs, u, e) # {}}
        ok == \A e \in touched :
                 update_event_registration_count_delete(evs, rest, e, t).ok
    IN  IF ok
        THEN [err |-> "",
              evs |-> [e \in DOMAIN evs \ owned |->
                         IF e \in touched
                         THEN [evs[e] EXCEPT !.current_registrations =
                                   ConfirmedCount(rest, e)]
                         ELSE evs[e]],
              regs |-> rest]
        ELSE [err |-> "P0001", evs |-> evs, regs |-> regs]

\* User.delete / DELETE FROM users WHERE id = u, sent between requests
DeleteUser(p, u) ==
    /\ AllIdle
    /\ \/ \E e \in DOMAIN events : Owner[e] = u
       \/ \E r \in registrations : r.user_id = u
    /\ req' = [req EXCEPT ![p] =
                 [op |-> "DeleteUser", actor |-> u, user |-> u,
                  event |-> "e1", status |-> "confirmed"]]
    /\ LET del == DeleteUserCascade(events, registrations, u, now)
       IN  /\ events' = del.evs
           /\ registrations' = del.regs
           /\ Finish(p, IF del.err = "" THEN "Deleted" ELSE "Error")
    /\ UNCHANGED <<now, nextId>>

\* users are deleted while registrations are written and time passes
NextDelete ==
    \/ Tick /\ UNCHANGED <<cycle, view, side>>
    \/ \E u \in Users, st \in InsertStatuses :
           \E e \in DOMAIN events :
               DirectInsert(u, e, st) /\ UNCHANGED <<cycle, view, side>>
    \/ \E p \in Workers, u \in Users :
           DeleteUser(p, u) /\ UNCHANGED <<cycle, view, side>>
    \/ \E p \in Workers : Return(p) /\ UNCHANGED <<cycle, view, side>>

SpecDelete == Init /\ [][NextDelete]_vars

\* ------------------------------------------------------- Store faults
\* the Store call of a Register or Cancel is rejected by the driver
\* (connection loss, deadlock, serialization failure): pool.query logs
\* and rethrows, the controller's catch answers a generic error
StoreFault(p) ==
    /\ pc[p] \in {"sf_run", "un_lock"}
    /\ Finish(p, "Error")
    /\ calls' = [calls EXCEPT ![p].fault = "transient"]
    /\ UNCHANGED <<now, events, registrations, nextId, req>>

\* pool.query issues the statement once
Issued(p) == calls' = [calls EXCEPT ![p].attempts = @ + 1]

\* Register and Cancel calls on e1 whose Store call can meet a fault
NextFault ==
    \/ Tick /\ UNCHANGED <<cycle, view, side>>
    \/ \E p \in Workers, u \in Users :
           StartRegister(p, u, "e1") /\ UNCHANGED <<cycle, view, side>>
    \/ \E p \in Workers, u \in Users :
           StartCancel(p, u, u, "e1") /\ UNCHANGED <<cycle, view, side>>
    \/ \E p \in Workers : RegExist(p) /\ UNCHANGED <<cycle, view, side>>
    \/ \E p \in Workers :
           SfBegin(p) /\ Issued(p)
           /\ UNCHANGED <<cycle, view, created, nextEventId, create,
                        aside>>
    \/ \E p \in Workers : SfRun(p) /\ UNCHANGED <<cycle, view, side>>
    \/ \E p \in Workers :
           UnBegin(p) /\ Issued(p)
           /\ UNCHANGED <<cycle, view, created, nextEventId, create,
                        aside>>
    \/ \E p \in Workers : UnLock(p) /\ UNCHANGED <<cycle, view, side>>
    \/ \E p \in Workers :
           StoreFault(p)
           /\ UNCHANGED <<cycle, view, created, nextEventId, create,
                        aside>>
    \/ \E p \in Workers :
           Return(p) /\ calls' = [calls EXCEPT ![p] = NoCall]
           /\ UNCHANGED <<cycle, view, created, nextEventId, create,
                        aside>>

SpecFault == Init /\ [][NextFault]_vars

\* ------------------------------------------------------------ createEvent
\* the date_time values a client sends, as leads over the current instant
Leads == {MinLead, MinLead + 1, MinLead + ConflictWindow,
          MinLead + ConflictWindow + 1, MinLead + ConflictWindow + 2,
          MaxLead, MaxLead + 1}

Abs(x) == IF x < 0 THEN -x ELSE x

\* validateCreateEvent: the custom check of body('date_time')
validateCreateEvent(d, t) ==
    /\ ~(d <= t + MinLead)
    /\ ~(d > t + MaxLead)

\* createEvent step 3: the rows the conflict query returns
ConflictingEvents(rows, a, d) ==
    {r \in rows : /\ r.created_by = a
                  /\ r.is_active
                  /\ Abs(r.date_time - d) < ConflictWindow}

\* the row INSERT INTO events builds, with the column defaults
NewEvent(id, a, d, c) ==
    [id |-> id, created_by |-> a, date_time |-> d, capacity |-> c,
     current_registrations |-> 0, is_active |-> TRUE]

\* the BEFORE INSERT triggers and the CHECKs of table events; OLD is null
\* in an INSERT trigger, so the conditions on OLD are not taken
events_insert_checks(new, t) ==
    /\ ~(new.date_time <= t)
    /\ ~(new.capacity <= 0 \/ new.capacity > CapacityLimitTrigger)
    /\ ~(new.current_registrations < 0)
    /\ ~(new.current_registrations > new.capacity)
    /\ events_checks(new, t)

\* clients checked out of the pool
ClientsOut == Cardinality({p \in Procs : create[p].client})

\* validateCreateEvent: body('capacity').isInt({ min: 1, max: 1000 })
validateCapacity(n) == n >= 1 /\ n <= CapacityLimitTable

\* validation middleware and createEvent steps 1 and 2
createEventWith(p, a, d, n) ==
    /\ create[p].pc = "idle"
    /\ LET c == [NoCreate EXCEPT !.created_by = a, !.date_time = d,
                                 !.capacity = n]
       IN  create' = [create EXCEPT ![p] =
               IF ~validateCreateEvent(d, now) \/ ~validateCapacity(n)
               THEN [c EXCEPT !.pc = "done", !.outcome = "ValidationError"]
               ELSE IF d <= now
               THEN [c EXCEPT !.pc = "done",
                              !.outcome = "BusinessLogicError"]
               ELSE [c EXCEPT !.pc = "conflict"]]
    /\ UNCHANGED <<engine, created, nextEventId, calls, aside>>

\* a request whose capacity is within every limit
createEvent(p, a, d) == createEventWith(p, a, d, MaxCap)

\* createEvent step 3: the conflict query, a statement of its own
CheckConflict(p) ==
    /\ create[p].pc = "conflict"
    /\ \E ok \in BOOLEAN :
         create' = [create EXCEPT ![p] =
             IF ~ok
             THEN [@ EXCEPT !.pc = "done", !.outcome = "Error"]
             ELSE IF ConflictingEvents(created, @.created_by,
                                       @.date_time) # {}
             THEN [@ EXCEPT !.pc = "done", !.outcome = "Conflict"]
             ELSE [@ EXCEPT !.pc = "connect"]]
    /\ UNCHANGED <<engine, created, nextEventId, calls, aside>>

\* withTransaction: const client = await this.getClient()
getClient(p) ==
    /\ create[p].pc = "connect"
    /\ ClientsOut < DB_POOL_MAX
    /\ \E ok \in BOOLEAN :
         create' = [create EXCEPT ![p] =
             IF ok THEN [@ EXCEPT !.pc = "begin", !.client = TRUE]
             ELSE [@ EXCEPT !.pc = "done", !.outcome = "Error"]]
    /\ UNCHANGED <<engine, created, nextEventId, calls, aside>>

\* withTransaction: await client.query('BEGIN')
TxBegin(p) ==
    /\ create[p].pc = "begin"
    /\ \E ok \in BOOLEAN :
         create' = [create EXCEPT ![p] =
             [@ EXCEPT !.last = "BEGIN",
                       !.pc = IF ok THEN "callback" ELSE "rollback"]]
    /\ UNCHANGED <<engine, created, nextEventId, calls, aside>>

\* variant: a throwing callback leaves without ROLLBACK
TxCallbackNoRollback(p) ==
    /\ create[p].pc = "callback"
    /\ nextEventId <= MaxEvents
    /\ nextEventId' = nextEventId + 1
    /\ \E ok \in BOOLEAN :
         LET row == NewEvent(nextEventId, create[p].created_by,
                             create[p].date_time, create[p].capacity)
         IN  create' = [create EXCEPT ![p] =
                 IF ok /\ events_insert_checks(row, now)
                 THEN [@ EXCEPT !.last = "INSERT", !.pc = "commit",
                                !.id = nextEventId, !.inserted = TRUE]
                 ELSE [@ EXCEPT !.last = "INSERT", !.pc = "release"]]
    /\ UNCHANGED <<engine, created, calls, aside>>

\* withTransaction: await callback(client), the INSERT of createEvent
\* step 4; the sequence advances whether or not the row is kept
TxCallback(p) ==
    /\ create[p].pc = "callback"
    /\ nextEventId <= MaxEvents
    /\ nextEventId' = nextEventId + 1
    /\ \E ok \in BOOLEAN :
         LET row == NewEvent(nextEventId, create[p].created_by,
                             create[p].date_time, create[p].capacity)
         IN  create' = [create EXCEPT ![p] =
                 IF ok /\ events_insert_checks(row, now)
                 THEN [@ EXCEPT !.last = "INSERT", !.pc = "commit",
                                !.id = nextEventId, !.inserted = TRUE]
                 ELSE [@ EXCEPT !.last = "INSERT", !.pc = "rollback"]]
    /\ UNCHANGED <<engine, created, calls, aside>>

\* withTransaction: await client.query('COMMIT')
TxCommit(p) ==
    /\ create[p].pc = "commit"
    /\ \E ok \in BOOLEAN :
         /\ create' = [create EXCEPT ![p] =
                [@ EXCEPT !.last = "COMMIT",
                          !.commits = @ + 1,
                          !.ended = IF ok THEN "COMMIT" ELSE "none",
                          !.pc = IF ok THEN "release" ELSE "rollback"]]
         /\ created' = IF ok
                       THEN created \cup
                            {NewEvent(create[p].id, create[p].created_by,
                                      create[p].date_time,
                                      create[p].capacity)}
                       ELSE created
    /\ UNCHANGED <<engine, nextEventId, calls, aside>>

\* withTransaction: catch (err) { await client.query('ROLLBACK'); throw }
TxRollback(p) ==
    /\ create[p].pc = "rollback"
    /\ \E ok \in BOOLEAN :
         create' = [create EXCEPT ![p] =
             [@ EXCEPT !.last = "ROLLBACK",
                       !.rollbacks = @ + 1,
                       !.inserted = FALSE,
                       !.ended = IF ok THEN "ROLLBACK" ELSE "none",
                       !.pc = "release"]]
    /\ UNCHANGED <<engine, created, nextEventId, calls, aside>>

\* withTransaction: finally { client.release() }, then createEvent step 5
\* or its catch
TxRelease(p) ==
    /\ create[p].pc = "release"
    /\ create' = [create EXCEPT ![p] =
           [@ EXCEPT !.client = FALSE,
                     !.releases = @ + 1,
                     !.pc = "done",
                     !.outcome = IF create[p].ended = "COMMIT"
                                 THEN "Created"
                                 ELSE "Error"]]
    /\ UNCHANGED <<engine, created, nextEventId, calls, aside>>

\* the response is delivered; the worker takes the next request
CreateReturn(p) ==
    /\ create[p].pc = "done"
    /\ create' = [create EXCEPT ![p] = NoCreate]
    /\ UNCHANGED <<engine, created, nextEventId, calls, aside>>

\* UPDATE events SET is_active = false WHERE id = ..., on a created event
DeactivateCreated(id) ==
    /\ \E old \in created :
         /\ old.id = id /\ old.is_active
         /\ LET new == [old EXCEPT !.is_active = FALSE]
            IN  /\ validate_event_date(old, new, now)
                /\ validate_event_data(old, new, now)
                /\ events_checks(new, now)
                /\ created' = (created \ {old}) \cup {new}
    /\ UNCHANGED <<engine, nextEventId, create, calls, aside>>

\* createEvent requests of two owners, one at a time, within one tick of
\* the clock
NextCreate ==
    \/ \E p \in Creators, a \in Users, l \in Leads :
           createEvent(p, a, now + l)
    \/ \E p \in Creators : CheckConflict(p)
    \/ \E p \in Creators : getClient(p)
    \/ \E p \in Creators : TxBegin(p)
    \/ \E p \in Creators : TxCallback(p)
    \/ \E p \in Creators : TxCommit(p)
    \/ \E p \in Creators : TxRollback(p)
    \/ \E p \in Creators : TxRelease(p)
    \/ \E p \in Creators : CreateReturn(p)
    \/ \E id \in 1..MaxEvents : DeactivateCreated(id)

SpecCreate == Init /\ [][NextCreate]_vars

\* two requests of one owner, for dates a second apart, run side by side
NextCreateRace ==
    \/ \E p \in Workers, l \in {MinLead + 1, MinLead + 2} :
           createEvent(p, "u1", now + l)
    \/ \E p \in Workers : CheckConflict(p)
    \/ \E p \in Workers : getClient(p)
    \/ \E p \in Workers : TxBegin(p)
    \/ \E p \in Workers : TxCallback(p)
    \/ \E p \in Workers : TxCommit(p)
    \/ \E p \in Workers : TxRollback(p)
    \/ \E p \in Workers : TxRelease(p)
    \/ \E p \in Workers : CreateReturn(p)

SpecCreateRace == Init /\ [][NextCreateRace]_vars

\* the capacities a client sends
Capacities == {0 - 1, 0, 1, CapacityLimitTable, CapacityLimitTable + 1,
               CapacityLimitTrigger, CapacityLimitTrigger + 1}

\* createEvent requests with every kind of capacity, for two dates an hour
\* apart
NextCreateCapacity ==
    \/ \E p \in Creators, a \in Users, n \in Capacities :
       \E l \in {MinLead + 1, MinLead + ConflictWindow + 1} :
           createEventWith(p, a, now + l, n)
    \/ \E p \in Creators : CheckConflict(p)
    \/ \E p \in Creators : getClient(p)
    \/ \E p \in Creators : TxBegin(p)
    \/ \E p \in Creators : TxCallback(p)
    \/ \E p \in Creators : TxCommit(p)
    \/ \E p \in Creators : TxRollback(p)
    \/ \E p \in Creators : TxRelease(p)
    \/ \E p \in Creators : CreateReturn(p)

SpecCreateCapacity == Init /\ [][NextCreateCapacity]_vars


\* --------------------------------------------------------- GET requests
\* the user ids of the rows WHERE event_id = e AND status = 'confirmed'
ConfirmedUsers(regs, e) ==
    {r.user_id : r \in {x \in regs : x.event_id = e /\ x.status = "confirmed"}}

\* what a response would show of one committed state of event e
Snap(evs, regs, e) ==
    [current_registrations |-> evs[e].current_registrations,
     listed |-> ConfirmedUsers(regs, e)]

\* view.snaps collects the committed states that exist while a GET request
\* is between its first query and its response
Seen(v) ==
    IF v.stage \in 1..3
    THEN [v EXCEPT !.snaps = @ \cup {Snap(events', registrations', v.event)}]
    ELSE v

\* the first query of both GET handlers: the event row WHERE is_active;
\* stage 5 is the NotFound response
ReadEvent(route, e) ==
    /\ view.stage = 0
    /\ view' = IF events[e].is_active
               THEN [NoView EXCEPT
                       !.route = route, !.stage = 1, !.event = e,
                       !.current_registrations =
                           events[e].current_registrations,
                       !.date_time = events[e].date_time,
                       !.capacity = events[e].capacity,
                       !.snaps = {Snap(events, registrations, e)}]
               ELSE [NoView EXCEPT !.route = route, !.stage = 5, !.event = e]
    /\ UNCHANGED <<now, events, registrations, nextId, pc, req, ts, regid,
                   cnt, outcome, cycle, side>>

\* GET /api/events/:id, asked by the event's owner
getEventDetails(e) == ReadEvent("details", e)

\* GET /api/events/:id/stats
getEventStats(e) == ReadEvent("stats", e)

\* getEventDetails step 2: the confirmed attendees, a query of its own
ReadAttendees ==
    /\ view.route = "details" /\ view.stage = 1
    /\ view' = [view EXCEPT
                  !.stage = 2,
                  !.listed = ConfirmedUsers(registrations, view.event)]
    /\ UNCHANGED <<now, events, registrations, nextId, pc, req, ts, regid,
                   cnt, outcome, cycle, side>>

\* MIN(registered_at) and MAX(registered_at) of the rows of event e
RegistrationTimes(regs, e) ==
    LET at == {r.registered_at : r \in {x \in regs : x.event_id = e}}
    IN  {t \in at : (\A x \in at : t <= x) \/ (\A x \in at : t >= x)}

\* getEventDetails step 3: calculateEventStats, a query of its own
calculateEventStats ==
    /\ \/ view.route = "details" /\ view.stage = 2
       \/ view.route = "viewer" /\ view.stage = 8
    /\ view' = [view EXCEPT
                  !.stage = 3,
                  !.confirmed = ConfirmedCount(registrations, view.event),
                  !.times = RegistrationTimes(registrations, view.event)]
    /\ UNCHANGED <<now, events, registrations, nextId, pc, req, ts, regid,
                   cnt, outcome, cycle, side>>

\* getEventStats step 2: SELECT get_event_registration_stats(e); its
\* FOR SHARE on the event row waits for a writer holding the row
get_event_registration_stats ==
    /\ view.route = "stats" /\ view.stage = 1
    /\ ~EventLocked(view.event)
    /\ view' = [view EXCEPT
                  !.stage = 2,
                  !.confirmed = ConfirmedCount(registrations, view.event)]
    /\ UNCHANGED <<now, events, registrations, nextId, pc, req, ts, regid,
                   cnt, outcome, cycle, side>>

\* getEventStats step 6: the recent registrations (LIMIT 10), a query of
\* its own
ReadRecent ==
    /\ view.route = "stats" /\ view.stage = 2
    /\ view' = [view EXCEPT
                  !.stage = 3,
                  !.is_event_soon = (view.date_time - now < SoonWindow),
                  !.listed = ConfirmedUsers(registrations, view.event)]
    /\ UNCHANGED <<now, events, registrations, nextId, pc, req, ts, regid,
                   cnt, outcome, cycle, side>>

\* GET /api/events/:id asked by viewer v ("anonymous": no valid token):
\* step 1, the event row
getEventDetailsAs(v, e) ==
    /\ view.stage = 0
    /\ view' = IF events[e].is_active
               THEN [NoView EXCEPT
                       !.route = "viewer", !.stage = 6, !.event = e,
                       !.viewer = v,
                       !.current_registrations =
                           events[e].current_registrations,
                       !.date_time = events[e].date_time,
                       !.capacity = events[e].capacity]
               ELSE [NoView EXCEPT
                       !.route = "viewer", !.stage = 5, !.event = e,
                       !.viewer = v]
    /\ UNCHANGED <<now, events, registrations, nextId, pc, req, ts, regid,
                   cnt, outcome, cycle, side>>

\* getEventDetails step 2: isRegistered, a query of its own
checkUserRegistration ==
    /\ view.route = "viewer" /\ view.stage = 6
    /\ view' = [view EXCEPT
                  !.stage = 7,
                  !.is_registered =
                      /\ view.viewer # "anonymous"
                      /\ view.viewer
                            \in ConfirmedUsers(registrations, view.event)]
    /\ UNCHANGED <<now, events, registrations, nextId, pc, req, ts, regid,
                   cnt, outcome, cycle, side>>

\* getEventDetails step 2: the attendees for the owner or a registered
\* viewer, the count for the others
ReadRegisteredUsers ==
    /\ view.route = "viewer" /\ view.stage = 7
    /\ view' = IF view.viewer = Owner[view.event] \/ view.is_registered
               THEN [view EXCEPT
                       !.stage = 8, !.disclosed = "list",
                       !.listed = ConfirmedUsers(registrations, view.event)]
               ELSE [view EXCEPT
                       !.stage = 8, !.disclosed = "count",
                       !.count = ConfirmedCount(registrations, view.event)]
    /\ UNCHANGED <<now, events, registrations, nextId, pc, req, ts, regid,
                   cnt, outcome, cycle, side>>

\* res.status(200).json(...) built from what the queries returned
Respond ==
    /\ view.stage = 3
    /\ view' = [view EXCEPT
                  !.stage = 4,
                  !.time_until_event = view.date_time - now,
                  !.has_started = (view.date_time <= now),
                  !.can_register =
                      /\ view.viewer # "anonymous"
                      /\ ~view.is_registered
                      /\ ~(view.date_time <= now)]
    /\ UNCHANGED <<now, events, registrations, nextId, pc, req, ts, regid,
                   cnt, outcome, cycle, side>>

\* the response is delivered; the next GET request may start
Delivered ==
    /\ view.stage \in {4, 5}
    /\ view' = NoView
    /\ UNCHANGED <<now, events, registrations, nextId, pc, req, ts, regid,
                   cnt, outcome, cycle, side>>

\* GET requests of every kind of viewer on e1 while registrations are
\* written, its capacity is updated and time passes
NextView ==
    \/ Tick /\ UNCHANGED <<cycle, view, side>>
    \/ \E u \in Users, st \in InsertStatuses :
           DirectInsert(u, "e1", st) /\ UNCHANGED <<cycle, view, side>>
    \/ \E c \in 1..MaxCap :
           UpdateCapacity(1, "e1", c) /\ UNCHANGED <<cycle, view, side>>
    \/ Return(1) /\ UNCHANGED <<cycle, view, side>>
    \/ \E v \in Users \cup {"anonymous"} : getEventDetailsAs(v, "e1")
    \/ checkUserRegistration
    \/ ReadRegisteredUsers
    \/ calculateEventStats
    \/ getEventStats("e1")
    \/ get_event_registration_stats
    \/ ReadRecent
    \/ Respond
    \/ Delivered

SpecView == Init /\ [][NextView]_vars

\* GET requests on e1 while Register and Cancel calls on e1 run, all
\* within one tick of the clock
NextRead ==
    \/ \E p \in Workers, u \in Users :
           StartRegister(p, u, "e1") /\ UNCHANGED <<cycle, view, side>>
    \/ \E p \in Workers, u \in Users :
           StartCancel(p, u, u, "e1") /\ UNCHANGED <<cycle, view, side>>
    \/ \E p \in Workers : RegExist(p) /\ UNCHANGED <<cycle, view, side>>
    \/ \E p \in Workers : SfBegin(p) /\ UNCHANGED <<cycle, view, side>>
    \/ \E p \in Workers : SfRun(p) /\ UNCHANGED <<cycle, side>>
           /\ view' = Seen(view)
    \/ \E p \in Workers : UnBegin(p) /\ UNCHANGED <<cycle, view, side>>
    \/ \E p \in Workers : UnLock(p) /\ UNCHANGED <<cycle, side>>
           /\ view' = Seen(view)
    \/ \E p \in Workers : Return(p) /\ UNCHANGED <<cycle, view, side>>
    \/ getEventDetails("e1")
    \/ getEventStats("e1")
    \/ ReadAttendees
    \/ calculateEventStats
    \/ get_event_registration_stats
    \/ ReadRecent
    \/ Respond
    \/ Delivered

SpecRead == Init /\ [][NextRead]_vars

\* ------------------------------------------- GET /api/events/upcoming
\* validateUpcomingEventsQuery: the sort fields and directions a request may
\* name ("none": the parameter is absent)
SortFields == {"none", "date_time", "title", "capacity",
               "current_registrations", "created_at"}
SortOrders == {"ASC", "DESC"}

\* every order in which the rows of a set can be returned
Orderings(S) ==
    {s \in [1..Cardinality(S) -> S] :
        \A i, j \in 1..Cardinality(S) : i # j => s[i] # s[j]}

\* WHERE e.is_active = true AND e.date_time > CURRENT_TIMESTAMP
UpcomingRows(rows, t) == {r \in rows : r.is_active /\ r.date_time > t}

\* ORDER BY e.date_time ASC, e.location ASC NULLS LAST: the events are
\* created without a location, so rows of one date_time come in any order
OrderedUpcoming(rows, t) ==
    {s \in Orderings(UpcomingRows(rows, t)) :
        \A i, j \in DOMAIN s : i < j => s[i].date_time <= s[j].date_time}

\* GET /api/events/upcoming?sort_by=..&sort_order=..: the query reads the
\* filters of req.query only
getUpcomingEvents(f, o) ==
    /\ view.stage = 0
    /\ \E s \in OrderedUpcoming(created, now) :
           view' = [NoView EXCEPT !.route = "upcoming", !.stage = 4,
                                  !.sort_by = f, !.sort_order = o,
                                  !.events = s]
    /\ UNCHANGED <<now, events, registrations, nextId, pc, req, ts, regid,
                   cnt, outcome, cycle, side>>

\* events of two capacities are created on two dates and listed
NextUpcoming ==
    \/ \E p \in Creators, a \in Users, n \in {1, MaxCap} :
       \E l \in {MinLead + 1, MinLead + ConflictWindow + 1} :
           createEventWith(p, a, now + l, n)
    \/ \E p \in Creators : CheckConflict(p)
    \/ \E p \in Creators : getClient(p)
    \/ \E p \in Creators : TxBegin(p)
    \/ \E p \in Creators : TxCallback(p)
    \/ \E p \in Creators : TxCommit(p)
    \/ \E p \in Creators : TxRollback(p)
    \/ \E p \in Creators : TxRelease(p)
    \/ \E p \in Creators : CreateReturn(p)
    \/ \E f \in SortFields, o \in SortOrders : getUpcomingEvents(f, o)
    \/ Delivered

SpecUpcoming == Init /\ [][NextUpcoming]_vars

\* sessions that write table registrations directly, at once
NextDirect ==
    \/ Tick /\ UNCHANGED <<cycle, view, side>>
    \/ \E p \in Workers, u \in Users, st \in InsertStatuses :
           DirectBegin(p, u, "e1", st) /\ UNCHANGED <<cycle, view, side>>
    \/ \E p \in Workers : DiRow(p) /\ UNCHANGED <<cycle, view, side>>
    \/ \E p \in Workers : DiUpd(p) /\ UNCHANGED <<cycle, view, side>>
    \/ \E p \in Workers, id \in 1..MaxId :
           DirectUpdate(p, id) /\ UNCHANGED <<cycle, view, side>>
    \/ \E p \in Workers : RxLock(p) /\ UNCHANGED <<cycle, view, side>>
    \/ \E p \in Workers : RxAfter(p) /\ UNCHANGED <<cycle, view, side>>
    \/ \E p \in Workers : RxUpd(p) /\ UNCHANGED <<cycle, view, side>>
    \/ \E p \in Workers, u \in Users :
           DirectDelete(p, u, "e1") /\ UNCHANGED <<cycle, view, side>>
    \/ \E p \in Workers : Return(p) /\ UNCHANGED <<cycle, view, side>>

SpecDirect == Init /\ [][NextDirect]_vars

\* NProcs Register requests of distinct users on one event, at once
NextReg ==
    \/ Tick /\ UNCHANGED <<cycle, view, side>>
    \/ \E p \in Procs : StartRegister(p, UserSeq[p], "e1") /\ UNCHANGED <<cycle, view, side>>
    \/ \E p \in Procs : RegExist(p) /\ UNCHANGED <<cycle, view, side>>
    \/ \E p \in Procs : SfBegin(p) /\ UNCHANGED <<cycle, view, side>>
    \/ \E p \in Procs : SfRun(p) /\ UNCHANGED <<cycle, view, side>>

SpecReg == Init /\ [][NextReg]_vars

\* ============================================================ properties
Min(a, b) == IF a < b THEN a ELSE b

ActiveStatuses == {"confirmed", "waitlist", "pending"}

Created == {p \in Procs : pc[p] = "done" /\ outcome[p] = "Created"}

\* C1: when NProcs distinct users Register at once on an empty future
\* event of capacity C, exactly min(NProcs, C) of them get Created, all
\* the others get EventFull, and the counter equals the number created.
\* (stated for the states where every call has answered before date_time)
ConcurrentRegistersFillExactly ==
    ((\A p \in Procs : pc[p] = "done") /\ now < events["e1"].date_time)
    => /\ Cardinality(Created) = Min(NProcs, events["e1"].capacity)
       /\ \A p \in Procs \ Created : outcome[p] = "EventFull"
       /\ events["e1"].current_registrations = Cardinality(Created)

\* C2: in every state reached by Register and Cancel calls, each event has
\* no more confirmed registrations than its capacity.
ConfirmedWithinCapacity ==
    \A e \in Events :
        Cardinality({r \in registrations :
                       r.event_id = e /\ r.status = "confirmed"})
            <= events[e].capacity

\* a Register for a user without a row was turned away from an event that
\* has a confirmed registration
RegisterTurnedAway ==
    \E p \in Procs :
        /\ pc[p] = "done" /\ req[p].op = "Register"
        /\ outcome[p] \in {"EventFull", "Error"}
        /\ RowsFor(registrations, req[p].user, req[p].event) = {}
        /\ ConfirmedCount(registrations, req[p].event) >= 1

\* C3: after every committed Register or Cancel, each event's
\* current_registrations is the number of its confirmed rows.
CounterMatchesConfirmed ==
    \A e \in Events :
        events[e].current_registrations =
            Cardinality({r \in registrations :
                           r.event_id = e /\ r.status = "confirmed"})

\* a Cancel has just committed while a registration of the other worker
\* stands
CancelAndRegisterCommitted ==
    \E p, q \in Procs :
        /\ pc[p] = "done" /\ outcome[p] = "Cancelled"
        /\ pc[q] = "done" /\ outcome[q] = "Created"
        /\ events[req[q].event].current_registrations >= 1

\* C4: a user never has more than one active row (confirmed, waitlist or
\* pending) for an event, also when Registers for the pair run at once.
OneActiveRegistration ==
    \A u \in Users, e \in Events :
        Cardinality({r \in registrations :
                       /\ r.user_id = u /\ r.event_id = e
                       /\ r.status \in ActiveStatuses}) <= 1

\* two Registers for one pair ran at once: one created the row, the other
\* was answered AlreadyRegistered by the locked check
ConcurrentDuplicateRefused ==
    \E p, q \in Procs :
        /\ p # q /\ pc[p] = "done" /\ pc[q] = "done"
        /\ req[p].op = "Register" /\ req[q].op = "Register"
        /\ req[p].user = req[q].user /\ req[p].event = req[q].event
        /\ outcome[p] = "Created" /\ outcome[q] = "AlreadyRegistered"
        /\ regid[q] = 0
        /\ Cardinality(RowsFor(registrations, req[p].user, req[p].event)) = 1

\* the step by which worker p answers a Register while the event is
\* still in the future
AnswersRegister(p) ==
    /\ pc[p] # "done" /\ pc'[p] = "done"
    /\ req'[p].op = "Register"
    /\ events[req'[p].event].is_active
    /\ events[req'[p].event].date_time > now

\* C5: filling an empty future event of capacity C by sequential Registers
\* of distinct users: each of the first C is Created and takes one place,
\* and the next one gets EventFull with the counter left at C.
\* (stated call by call: the caller has no row and every row of the event
\* is a confirmed registration)
SequentialRegistersFill ==
    [][\A p \in Procs :
         LET u == req'[p].user
             e == req'[p].event
             c == events[e].current_registrations
         IN  (/\ AnswersRegister(p)
              /\ RowsFor(registrations, u, e) = {}
              /\ \A r \in registrations :
                     r.event_id = e => r.status = "confirmed"
              /\ c = ConfirmedCount(registrations, e))
             => IF c < events[e].capacity
                THEN /\ outcome'[p] = "Created"
                     /\ events'[e].current_registrations = c + 1
                     /\ events'[e].capacity - events'[e].current_registrations
                            = events[e].capacity - c - 1
                ELSE /\ outcome'[p] = "EventFull"
                     /\ events'[e].current_registrations = c
      ]_vars

\* C6: a Register by a user whose registration stands (confirmed, not
\* cancelled since) returns AlreadyRegistered, creates no row and leaves
\* the counter unchanged.
DuplicateRegisterRefused ==
    [][\A p \in Procs :
         LET u == req'[p].user
             e == req'[p].event
         IN  (/\ AnswersRegister(p)
              /\ StatusOf(registrations, u, e) = "confirmed")
             => /\ outcome'[p] = "AlreadyRegistered"
                /\ registrations' = registrations
                /\ events'[e].current_registrations
                       = events[e].current_registrations
      ]_vars

\* C7: on a future event with a free place, Register, Cancel, Register by
\* one user succeed one after the other and end with exactly one confirmed
\* registration of the user and the counter one above where it started.
RegisterCancelRegisterSucceeds == cycle.stage \notin {11, 13, 15}

\* C8: a Register (new or reactivating) or a Cancel answered when the
\* event's date_time is <= now is rejected with EventPast and changes
\* neither the registrations nor the counter, wherever the clock moved
\* during the request.
PastEventRejectsAll ==
    [][\A p \in Procs :
         (/\ pc[p] # "done" /\ pc'[p] = "done"
          /\ events[req'[p].event].date_time <= now)
         => /\ outcome'[p] = "EventPast"
            /\ registrations' = registrations
            /\ events' = events
      ]_vars

\* C9: with cancelled rows present, reactivating Registers interleaved
\* with other Registers and Cancels keep confirmed count <= capacity and
\* current_registrations = confirmed count.
ReactivationKeepsInvariants ==
    \A e \in Events :
        /\ ConfirmedCount(registrations, e) <= events[e].capacity
        /\ events[e].current_registrations = ConfirmedCount(registrations, e)

\* C10: a Register by a user whose row is cancelled: on a full event it
\* returns EventFull and the row stays cancelled; otherwise that row
\* becomes confirmed with registered_at the instant of the statement, the
\* counter goes up by exactly 1, no second row appears and the outcome is
\* Reactivated.  (one request at a time, event in the future)
ReactivationContract ==
    [][\A p \in Procs :
         LET u == req'[p].user
             e == req'[p].event
             c == events[e].current_registrations
             row == CHOOSE r \in RowsFor(registrations, u, e) : TRUE
         IN  (/\ AnswersRegister(p)
              /\ StatusOf(registrations, u, e) = "cancelled")
             => IF c >= events[e].capacity
                THEN /\ outcome'[p] = "EventFull"
                     /\ registrations' = registrations
                     /\ events' = events
                ELSE /\ outcome'[p] = "Reactivated"
                     /\ registrations' = (registrations \ {row}) \cup
                            {[row EXCEPT !.status = "confirmed",
                                         !.registered_at = ts[p]]}
                     /\ ts[p] <= now
                     /\ events'[e].current_registrations = c + 1
      ]_vars

\* a cancelled registration was refused on an event that the reactivation
\* of another one, at a later instant than it was made, had filled
RefusedAfterReactivation ==
    \E q \in Procs :
        /\ pc[q] = "done" /\ req[q].op = "Register"
        /\ outcome[q] = "EventFull"
        /\ StatusOf(registrations, req[q].user, req[q].event) = "cancelled"
        /\ \E r \in registrations :
               /\ r.event_id = req[q].event
               /\ r.status = "confirmed" /\ r.registered_at > 0

\* worker p has made the duplicate or capacity check of a write on event
\* e and has not yet committed the write
BetweenCheckAndWrite(p, e) ==
    /\ pc[p] \in {"rx_after", "rx_upd", "un_delete"}
    /\ req[p].event = e

\* C11: the writes of Register (new or reactivating) and Cancel on an
\* event are serialized by the event's lock: at no time are two of them
\* between their check and their write on the same event.
OneWriterPerEvent ==
    \A e \in Events : \A p, q \in Procs :
        (BetweenCheckAndWrite(p, e) /\ BetweenCheckAndWrite(q, e)) => p = q

\* C12: inserts, status updates and deletes sent directly to table
\* registrations, in any interleaving, leave each event with confirmed
\* count <= capacity and current_registrations = confirmed count.
DirectWritesKeepInvariants ==
    \A e \in Events :
        /\ Cardinality({r \in registrations :
                          r.event_id = e /\ r.status = "confirmed"})
               <= events[e].capacity
        /\ events[e].current_registrations =
               Cardinality({r \in registrations :
                              r.event_id = e /\ r.status = "confirmed"})

SuccessOutcomes == {"Created", "Reactivated", "Cancelled"}

\* C13: a Register or Cancel that ends with a failure outcome or an error,
\* at whatever step, has written nothing: the registrations and the event
\* rows change only in the step by which a request ends successfully (or,
\* with no request in progress, by a direct insert).
FailureLeavesNoEffect ==
    [][(registrations' # registrations \/ events' # events)
       => \/ AllIdle
          \/ \E p \in Procs : /\ pc[p] # "done" /\ pc'[p] = "done"
                              /\ outcome'[p] \in SuccessOutcomes
      ]_vars

\* a Register passed every check of the function and was refused by the
\* trigger that runs after its row is written
TriggerRefusedInsert ==
    \E p \in Procs :
        /\ pc[p] = "done" /\ req[p].op = "Register"
        /\ outcome[p] = "Error"
        /\ RowsFor(registrations, req[p].user, req[p].event) = {}
        /\ events[req[p].event].current_registrations
               < events[req[p].event].capacity
        /\ now < events[req[p].event].date_time

\* C14: a Cancel whose actor is not the target user is rejected with
\* 'You can only cancel your own registration' at once, and neither the
\* target's registration nor the event counter changes.
CancelOfAnotherForbidden ==
    [][\A p \in Procs :
         (/\ pc[p] = "idle" /\ pc'[p] # "idle"
          /\ req'[p].op = "Cancel"
          /\ req'[p].actor # req'[p].user)
         => /\ pc'[p] = "done"
            /\ outcome'[p] = "Forbidden"
            /\ registrations' = registrations
            /\ events' = events
      ]_vars

\* a user was refused the Cancel of another user's standing registration
ForbiddenCancelRefused ==
    \E p \in Procs :
        /\ pc[p] = "done" /\ req[p].op = "Cancel"
        /\ req[p].actor # req[p].user
        /\ outcome[p] = "Forbidden"
        /\ StatusOf(registrations, req[p].user, req[p].event) = "confirmed"
        /\ events[req[p].event].current_registrations >= 1

\* C15: a Register whose body names a user other than the caller (who has
\* no elevated capability) neither creates nor reactivates a registration
\* of that other user.
RegisterOnlySelf ==
    [][\A p \in Procs :
         (/\ pc[p] # "done" /\ pc'[p] = "done"
          /\ req'[p].op = "Register"
          /\ req'[p].actor # req'[p].user
          /\ ~is_admin(req'[p].actor))
         => RowsFor(registrations', req'[p].user, req'[p].event)
                = RowsFor(registrations, req'[p].user, req'[p].event)
      ]_vars

\* C16: a Register or Cancel answered when the event is inactive (also
\* when it was deactivated after the controller's first look) returns
\* NotFound and changes no registration and no counter.
InactiveEventNotFound ==
    [][\A p \in Procs :
         (/\ pc[p] # "done" /\ pc'[p] = "done"
          /\ ~events[req'[p].event].is_active)
         => /\ outcome'[p] = "NotFound"
            /\ registrations' = registrations
            /\ events' = events
      ]_vars

\* C17: a Cancel by a user who has no confirmed registration for the
\* event (no row, or a row that is not confirmed) returns NotRegistered
\* and leaves every row and the counter unchanged.
CancelWithoutConfirmedRefused ==
    [][\A p \in Procs :
         (/\ pc[p] # "done" /\ pc'[p] = "done"
          /\ req'[p].op = "Cancel"
          /\ req'[p].actor = req'[p].user
          /\ events[req'[p].event].is_active
          /\ events[req'[p].event].date_time > now
          /\ StatusOf(registrations, req'[p].user, req'[p].event)
                 # "confirmed")
         => /\ outcome'[p] = "NotRegistered"
            /\ registrations' = registrations
            /\ events' = events
      ]_vars

\* C18: concurrent Register and Cancel calls are deadlock-free: no call
\* waits for a lock held by a call that waits for a lock the first one
\* holds, so every call can run to its answer.
DeadlockFree == \A p, q \in Procs : ~Deadlocked(p, q)

RowsOf(regs, e) == {r \in regs : r.event_id = e}

\* the store as it would be if event e were the only one in use
Alone(e) ==
    [evs |-> [x \in Events |->
                IF x = e THEN events[x]
                ELSE [events[x] EXCEPT !.current_registrations = 0]],
     regs |-> RowsOf(registrations, e)]

\* C19: a Register or Cancel on event e changes the registrations and the
\* counter of no other event, and is answered as it would be if e were
\* the only event in use, so one user's concurrent registrations on
\* distinct events do not affect each other.
EventsAreIndependent ==
    [][/\ \A e \in Events :
            (\/ RowsOf(registrations', e) # RowsOf(registrations, e)
             \/ events'[e] # events[e])
            => \E p \in Procs : pc'[p] # pc[p] /\ req'[p].event = e
       /\ \A p \in Procs :
            (pc[p] = "sf_run" /\ pc'[p] = "done")
            => outcome'[p] = RegisterOutcome(
                   safe_event_registration(
                       Alone(req[p].event).evs, Alone(req[p].event).regs,
                       nextId, req[p].user, req[p].event, ts[p]).code)
       /\ \A p \in Procs :
            (pc[p] = "un_lock" /\ pc'[p] = "done")
            => outcome'[p] = CancelOutcome(
                   UnregistrationCheck(
                       Alone(req[p].event).evs, Alone(req[p].event).regs,
                       req[p].user, req[p].event, ts[p]))
      ]_vars

\* one user's Registers on two events ran at once and both were Created
RegisteredOnBothEvents ==
    \E p, q \in Procs :
        /\ pc[p] = "done" /\ pc[q] = "done"
        /\ req[p].op = "Register" /\ req[q].op = "Register"
        /\ req[p].user = req[q].user /\ req[p].event # req[q].event
        /\ outcome[p] = "Created" /\ outcome[q] = "Created"
        /\ \A e \in Events : events[e].current_registrations = 1

\* C20: every GetEvent and Statistics response is a consistent snapshot:
\* its counter, available spots, confirmed count and attendee or recent
\* list are those of one committed state that existed during the request.
ResponseIsSnapshot ==
    view.stage = 4 =>
        \E s \in view.snaps :
            /\ view.current_registrations = s.current_registrations
            /\ view.listed = s.listed
            /\ view.confirmed = Cardinality(s.listed)

\* C21: every transaction opened by withTransaction ends with exactly one
\* COMMIT or one ROLLBACK and releases its one client exactly once,
\* whether the callback returns or throws or BEGIN, COMMIT or ROLLBACK
\* fails: no statement is issued twice, the client is held exactly
\* between getClient and release, and at the exit either the one COMMIT
\* took effect and no ROLLBACK followed or a ROLLBACK was the last
\* statement.
TransactionEndsOnce ==
    \A p \in Procs :
        LET c == create[p]
        IN  /\ c.commits <= 1 /\ c.rollbacks <= 1 /\ c.releases <= 1
            /\ c.client <=> c.pc \in {"begin", "callback", "commit",
                                      "rollback", "release"}
            /\ c.client => c.releases = 0
            /\ (c.pc = "done" /\ c.last # "none") =>
                  /\ c.releases = 1
                  /\ \/ /\ c.ended = "COMMIT" /\ c.last = "COMMIT"
                        /\ c.commits = 1 /\ c.rollbacks = 0
                     \/ /\ c.ended # "COMMIT" /\ c.last = "ROLLBACK"
                        /\ c.rollbacks = 1
                  /\ c.outcome = "Created" <=> c.ended = "COMMIT"

\* a transaction whose COMMIT failed was rolled back and released
CommitFailedRolledBack ==
    \E p \in Procs :
        /\ create[p].pc = "done"
        /\ create[p].commits = 1 /\ create[p].rollbacks = 1
        /\ create[p].releases = 1 /\ ~create[p].client
        /\ create[p].outcome = "Error"

\* C22: a Register or Cancel whose Store call fails with a transient fault
\* is retried a bounded number of times before the error is surfaced,
\* while every other error surfaces without a retry.
TransientFaultRetried ==
    \A p \in Procs :
        pc[p] = "done" /\ outcome[p] # "none" =>
            IF calls[p].fault = "transient"
            THEN calls[p].attempts > 1
            ELSE calls[p].attempts <= 1

\* C23: CreateEvent by owner A for time t is rejected with Conflict
\* exactly when A already has an active event whose date_time lies within
\* one hour of t, the endpoints of the interval included; events of other
\* owners and inactive events never cause the rejection.
ConflictWithinHour ==
    [][\A p \in Procs :
          (/\ create[p].pc = "conflict"
           /\ create'[p].pc # "conflict"
           /\ create'[p].outcome # "Error")
          => (create'[p].outcome = "Conflict"
              <=> \E r \in created :
                     /\ r.created_by = create[p].created_by
                     /\ r.is_active
                     /\ Abs(r.date_time - create[p].date_time)
                            <= ConflictWindow)
      ]_vars

\* C30: CreateEvent accepts a date_time exactly when it lies strictly
\* between now + 1h and now + 365d; every other date_time is answered
\* with a validation error and creates no event.
DateStrictlyWithinYear ==
    [][\A p \in Procs :
          (create[p].pc = "idle" /\ create'[p].pc # "idle")
          => /\ create'[p].outcome # "ValidationError"
                <=> /\ now + MinLead < create'[p].date_time
                    /\ create'[p].date_time < now + MaxLead
             /\ create'[p].outcome = "ValidationError"
                => created' = created /\ create'[p].pc = "done"
      ]_vars

\* C24: hard-deleting any user succeeds and removes all of that user's
\* registrations and owned events, and afterwards every affected event,
\* future or past, has current_registrations equal to its remaining
\* confirmed count.
DeleteUserSucceeds ==
    [][\A p \in Procs :
          (pc[p] = "idle" /\ pc'[p] = "done" /\ req'[p].op = "DeleteUser")
          => LET u == req'[p].user
             IN  /\ outcome'[p] = "Deleted"
                 /\ ~\E r \in registrations' : r.user_id = u
                 /\ ~\E e \in DOMAIN events' : Owner[e] = u
                 /\ \A e \in DOMAIN events' :
                        RowsFor(registrations, u, e) # {}
                        => events'[e].current_registrations =
                               ConfirmedCount(registrations', e)
      ]_vars

PastDateImmutable ==
    [][\A e \in Events :
          events[e].date_time <= now
          => events'[e].date_time = events[e].date_time
      ]_vars

\* C27: in every GetEvent response, can_register is true exactly when a
\* viewer is authenticated, is not the event's owner, has no confirmed
\* registration for it, the event is in the future and the event is not
\* full.
CanRegisterExact ==
    (view.stage = 4 /\ view.route = "viewer") =>
        (view.can_register
         <=> /\ view.viewer # "anonymous"
             /\ view.viewer # Owner[view.event]
             /\ ~view.is_registered
             /\ ~view.has_started
             /\ view.current_registrations < view.capacity)

\* C28: GetEvent discloses attendee identities (id, name, email,
\* registered_at) only to the owner or to a viewer holding a confirmed
\* registration when it is read; every other viewer receives only the
\* integer count, and nothing else that tells apart two states with equal
\* counts.
AttendeesOnlyToOwnerOrAttendee ==
    (view.stage = 4 /\ view.route = "viewer") =>
        /\ view.disclosed = "list"
           => view.viewer = Owner[view.event] \/ view.is_registered
        /\ view.disclosed = "count"
           => /\ view.listed = {}
              /\ view.times = {}

\* C29: Statistics reports is_event_soon = true exactly when
\* 0 < time_until_event < 24 hours; it is false for an event whose
\* date_time has passed.
EventSoonExact ==
    (view.stage = 4 /\ view.route = "stats") =>
        (view.is_event_soon
         <=> 0 < view.time_until_event
             /\ view.time_until_event < SoonWindow)

\* C31: CreateEvent accepts every integer capacity from 1 to 10,000
\* inclusive and stores the event with that capacity and
\* current_registrations = 0; it rejects 0, negative values and every
\* value of 10,001 or more.
CapacityUpToTenThousand ==
    [][/\ \A p \in Procs :
            (create[p].pc = "idle" /\ create'[p].pc # "idle")
            => (create'[p].outcome = "ValidationError"
                <=> ~(/\ create'[p].capacity >= 1
                      /\ create'[p].capacity <= CapacityLimitTrigger))
       /\ \A r \in created' \ created :
            /\ r.current_registrations = 0
            /\ \E p \in Procs : r.capacity = create[p].capacity
      ]_vars

\* C32: ListUpcoming returns the events ordered by the requested sort_by
\* field in the requested direction when one is given, and by date_time
\* ascending otherwise.
InOrder(s, f, o) ==
    \A i, j \in DOMAIN s :
        i < j => IF o = "DESC" THEN s[i][f] >= s[j][f]
                 ELSE s[i][f] <= s[j][f]

ListedInRequestedOrder ==
    view.route = "upcoming"
    => /\ view.sort_by \in {"capacity", "current_registrations", "date_time"}
          => InOrder(view.events, view.sort_by, view.sort_order)
       /\ view.sort_by = "none" => InOrder(view.events, "date_time", "ASC")

\* C33: at no time does one owner have two active events whose date_times
\* are less than one hour apart, also when CreateEvent calls run
\* concurrently.
NoTwoEventsWithinHour ==
    \A r1, r2 \in created :
        (/\ r1.id # r2.id
         /\ r1.created_by = r2.created_by
         /\ r1.is_active /\ r2.is_active)
        => Abs(r1.date_time - r2.date_time) >= ConflictWindow

\* C34: the available_spots and current_registrations a successful Register
\* returns, for a created or a reactivated registration, are capacity minus
\* counter and the counter as they stand right after that registration
\* commits, also when other registrations commit concurrently.
Commits(p, out) == pc[p] # "done" /\ pc'[p] = "done" /\ outcome'[p] = out

ResponseMatchesCommit ==
    [][\A p \in Procs :
         /\ Commits(p, "Created")
            => /\ current_registrations_sent(p)
                    = events'[req[p].event].current_registrations
               /\ available_spots_sent(p)
                    = events'[req[p].event].capacity
                      - events'[req[p].event].current_registrations
         /\ (/\ Commits(p, "Reactivated")
             /\ \E r \in registrations' :
                    r.id = regid[p] /\ r.status = "confirmed")
            => available_spots_sent(p)
                    = events'[req[p].event].capacity
                      - events'[req[p].event].current_registrations
      ]_vars

\* C35: for each (user, event) pair the registration state changes only
\* from absent to confirmed by a Register, from confirmed to cancelled or
\* removed by a Cancel, and from cancelled to confirmed by a reactivating
\* Register; no request ever produces a row with status waitlist or
\* pending.
StateOf(regs, u, e) ==
    IF RowsFor(regs, u, e) = {} THEN "absent"
    ELSE (CHOOSE r \in RowsFor(regs, u, e) : TRUE).status

RunsFor(op, u, e) ==
    \E p \in Procs :
        /\ pc[p] # pc'[p]
        /\ req[p].op = op /\ req[p].user = u /\ req[p].event = e

LawfulStateChanges ==
    [][\A u \in Users, e \in Events :
         LET a == StateOf(registrations, u, e)
             b == StateOf(registrations', u, e)
         IN  (pc' # pc /\ a # b)
             => \/ a = "absent" /\ b = "confirmed"
                   /\ RunsFor("Register", u, e)
                \/ a = "confirmed" /\ b \in {"cancelled", "absent"}
                   /\ RunsFor("Cancel", u, e)
                \/ a = "cancelled" /\ b = "confirmed"
                   /\ RunsFor("Register", u, e)
      ]_vars

\* C36: batch_event_registration over a list L on event e returns exactly
\* one outcome per element of L, in list order, with successful + failed =
\* |L|; each outcome and the final state are those of calling Register for
\* the users of L one after another, so that a failure for one user does
\* not undo the registrations made before it.
BatchIsRegisterInTurn ==
    [][(~batch.called /\ batch'.called)
       => LET L == batch'.p_user_ids
              turn == RegisterEach(events, registrations, nextId, L, "e1",
                                   now)
          IN  /\ Len(batch'.details) = Len(L)
              /\ batch'.successful_registrations
                     + batch'.failed_registrations = Len(L)
              /\ \A i \in 1..Len(L) :
                     (batch'.details[i] = "OK")
                     <=> (turn.outs[i] \in {"Created", "Reactivated"})
              /\ events' = turn.evs
              /\ registrations' = turn.regs
      ]_vars

\* C37: after connection errors the pool schedules reconnection tests with
\* a delay of reconnectDelay times the attempt number, never more than
\* maxConnectionAttempts - 1 of them in a row; the failure that brings the
\* count to maxConnectionAttempts emits maxRetriesReached and schedules
\* nothing; the counter is back at 0 whenever a connection is established.
ReconnectionBackoff ==
    [][/\ retry'.failures > retry.failures
          => IF retry'.failures >= maxConnectionAttempts
             THEN /\ pool'.emitted = "maxRetriesReached"
                  /\ retry'.scheduled = retry.scheduled
             ELSE /\ retry'.scheduled = retry.scheduled + 1
                  /\ retry'.delay = reconnectDelay * retry'.failures
                  /\ BagIn(retry'.delay, pool'.timers)
       /\ retry'.scheduled <= maxConnectionAttempts - 1
       /\ pool'.emitted = "connect" => pool'.connectionAttempts = 0
       /\ retry'.failures = 0 => pool'.connectionAttempts = 0
      ]_vars

MaxRetriesReached ==
    /\ pool.emitted = "maxRetriesReached"
    /\ retry.failures = maxConnectionAttempts
    /\ retry.scheduled = maxConnectionAttempts - 1

\* C38: however many requests call initialize() concurrently before an
\* initialization has completed, at most one DatabasePool, with its
\* health-check timer, is created and the pending migrations are run at
\* most once.
InitializedOnce ==
    manager.failed = 0
    => /\ manager.created <= 1
       /\ manager.healthChecks <= 1
       /\ manager.migrationRuns <= 1

====
